---- MODULE Spec2Model ----
(***************************************************************************)
(* The conversational recommendation core of map-whisperer               *)
(* (src/api/ai.js, src/api/placeDetails.js and the in-memory place       *)
(* store), as a state machine.                                            *)
(*                                                                         *)
(* Conventions for JavaScript values:                                      *)
(*   - a string is a tuple of one-character strings; the empty tuple      *)
(*     stands for '' and, in fields the code only tests for truthiness,   *)
(*     also for null/undefined;                                            *)
(*   - a nullable number is an integer, NullNum standing for null;        *)
(*   - a nullable boolean is one of "true", "false", "null";              *)
(*   - an object that may be null is a record, NullData / NoHours          *)
(*     standing for null;                                                  *)
(*   - a slots object is a function whose DOMAIN is the set of its keys.  *)
(***************************************************************************)
EXTENDS Integers, Sequences, FiniteSets, TLC

VARIABLES
    places,      \* the in-memory place store (let places = [])
    apiKey,      \* OPENROUTER_API_KEY || GEMINI_API_KEY is configured
    placesKey,   \* GOOGLE_PLACES_API_KEY || GOOGLE_MAPS_API_KEY is configured
    sessions,    \* const sessions = new Map(): session id -> session object
    heap,        \* session objects: object id -> [slots |-> ...]
    turn,        \* per invocation of handleChatSaved: its position and locals
    resp,        \* per invocation: the response sent by the last turn
    obs,         \* per invocation: what the current turn has called so far
    call         \* the last direct call of a pure function (SpecPure)

vars == <<places, apiKey, placesKey, sessions, heap, turn, resp, obs, call>>

----------------------------------------------------------------------------
(* Bounds of the model *)

MaxStore == 2
MaxExplain == 5
MaxBlock == 13

----------------------------------------------------------------------------
(* Strings *)

NullNum == -1

ToLowerChar(c) ==
    CASE c = "H" -> "h"
      [] c = "I" -> "i"
      [] c = "V" -> "v"
      [] c = "J" -> "j"
      [] c = "C" -> "c"
      [] c = "N" -> "n"
      [] OTHER -> c

toLowerCase(s) == [i \in 1..Len(s) |-> ToLowerChar(s[i])]

IsSpace(c) == c = " "

RECURSIVE trimStart(_)
trimStart(s) ==
    IF s # <<>> /\ IsSpace(Head(s)) THEN trimStart(Tail(s)) ELSE s

RECURSIVE trimEnd(_)
trimEnd(s) ==
    IF s # <<>> /\ IsSpace(s[Len(s)]) THEN trimEnd(SubSeq(s, 1, Len(s) - 1)) ELSE s

trim(s) == trimEnd(trimStart(s))

\* String.prototype.includes: t occurs in s as a contiguous substring
includes(s, t) ==
    \E i \in 0..(Len(s) - Len(t)) : SubSeq(s, i + 1, i + Len(t)) = t

startsWith(s, w) == Len(s) >= Len(w) /\ SubSeq(s, 1, Len(w)) = w

\* s.split(/\s+/).length: one more than the number of whitespace runs
splitLength(s) ==
    1 + Cardinality({i \in 1..Len(s) :
                        IsSpace(s[i]) /\ (i = 1 \/ ~IsSpace(s[i - 1]))})

Take(s, n) == SubSeq(s, 1, IF Len(s) < n THEN Len(s) ELSE n)

Min(a, b) == IF a <= b THEN a ELSE b

Abs(x) == IF x < 0 THEN 0 - x ELSE x

\* Array.prototype.find / some over a sequence, by index
FirstIndex(s, P(_)) ==
    IF \E i \in 1..Len(s) : P(s[i])
    THEN CHOOSE i \in 1..Len(s) : P(s[i]) /\ \A j \in 1..(i - 1) : ~P(s[j])
    ELSE 0

----------------------------------------------------------------------------
(* String literals used by the model *)

sVegan == <<"v", "e", "g", "a", "n">>
sCafe == <<"c", "a", "f", "e">>
sBar == <<"b", "a", "r">>
sCozy == <<"c", "o", "z", "y">>
sJoe == <<"J", "o", "e">>
sJoes == <<"J", "o", "e", "s">>
sVCafe == <<"V", "e", "g", "a", "n", " ", "C", "a", "f", "e">>
sG1 == <<"g", "1">>
sG2 == <<"g", "2">>
sG3 == <<"g", "3">>
sAddr == <<"1", " ", "s", "t">>
sList == <<"l", "1">>
sPhone == <<"5", "5", "5">>
sWeb == <<"w", "w", "w">>
sMon == <<"M", "o", "n">>
sTue == <<"T", "u", "e">>

----------------------------------------------------------------------------
(* JavaScript null / undefined for object-valued fields *)

Undefined == [undefined |-> TRUE]
NullData == [isNull |-> TRUE]
NoHours == [noHours |-> TRUE]

\* a || b for an object-valued a
OrElse(a, b) == IF a = Undefined THEN b ELSE a
\* a || b for a string-valued a
OrElseStr(a, b) == IF a = <<>> THEN b ELSE a

----------------------------------------------------------------------------
(* Slots *)

EmptySlots == [k \in {} |-> TRUE]

Has(slots, k) == k \in DOMAIN slots

\* truthiness of slots.category / cuisine / vibe (strings)
SlotStr(slots, k) == Has(slots, k) /\ slots[k] # <<>>
\* truthiness of slots.price
SlotPrice(slots) == Has(slots, "price") /\ slots["price"] # ""
\* truthiness of slots.distanceKm
SlotDist(slots) == Has(slots, "distanceKm") /\ slots["distanceKm"] # 0

\* Object.keys(slots).length
KeyCount(slots) == Cardinality(DOMAIN slots)

----------------------------------------------------------------------------
(* The place store: src/unnamed/part_000 *)

\* x || null for a number: 0 and null both give null
NumOrNull(x) == IF x = 0 \/ x = NullNum THEN NullNum ELSE x

addPlace(store, placeData) ==
    Append(store,
        [id        |-> Len(store) + 1,
         name      |-> placeData.name,
         lat       |-> IF placeData.lat = NullNum THEN 0 ELSE placeData.lat,
         lng       |-> IF placeData.lng = NullNum THEN 0 ELSE placeData.lng,
         address   |-> placeData.address,
         listName  |-> placeData.listName,
         placeTags |-> placeData.placeTags,
         notes     |-> placeData.notes,
         tags      |-> placeData.tags,
         type      |-> placeData.type,
         vibe      |-> placeData.vibe,
         priceLevel |-> NumOrNull(placeData.priceLevel),
         placeId   |-> placeData.placeId])

getAllPlaces(store) == store

getPlacesByListName(store, listName) ==
    SelectSeq(store, LAMBDA p : p.listName = listName)

\* Coordinates lie on one meridian (lng 7); lat is counted in kilometres
\* along it, and 0 stands for a missing coordinate (lat || null)
PlaceData(name, lat, tags, type, vibe, notes, priceLevel, placeId, listName) ==
    [name |-> name, lat |-> lat, lng |-> IF lat = 0 THEN 0 ELSE 7,
     address |-> sAddr, listName |-> listName, placeTags |-> <<>>,
     notes |-> notes, tags |-> tags, type |-> type, vibe |-> vibe,
     priceLevel |-> priceLevel, placeId |-> placeId]

dVeganCafe == PlaceData(sVCafe, 1, <<sVegan>>, sCafe, sCozy, <<>>, NullNum, sG1, sList)
dJoe == PlaceData(sJoe, 40, <<>>, sBar, <<>>, <<>>, 3, <<>>, <<>>)
\* the import routes skip a row without a name (server.js:167 and 224-227):
\* every saved place has one
dNook == PlaceData(<<"N", "o", "o", "k">>, 0, <<sCafe>>, <<>>, <<>>, sVegan, 0, sG3, sList)
dJoes == PlaceData(sJoes, 3, <<sVegan>>, sCafe, <<>>, <<>>, 1, sG2, <<>>)

Catalog == {dVeganCafe, dJoe, dNook, dJoes}

----------------------------------------------------------------------------
(* Place details: src/api/placeDetails.js *)

\* data.regularOpeningHours.openNow || null, on "true" | "false" | "absent"
OpenNowOrNull(x) == IF x = "true" THEN "true" ELSE "null"

normalizePlaceDetails(data, placeId) ==
    [placeId |-> placeId,
     name |-> data.displayName,
     address |-> data.formattedAddress,
     rating |-> NumOrNull(data.rating),
     userRatingCount |-> NumOrNull(data.userRatingCount),
     priceLevel |-> NumOrNull(data.priceLevel),
     categories |-> [primaryDisplayName |-> data.primaryTypeDisplayName],
     contact |-> [phone |-> data.nationalPhoneNumber, website |-> data.websiteUri],
     openingHours |->
        IF data.regularOpeningHours = Undefined
        THEN NoHours
        ELSE [weekdayText |-> data.regularOpeningHours.weekdayDescriptions,
              openNow |-> OpenNowOrNull(data.regularOpeningHours.openNow)]]

\* outcome: what the HTTP call to the provider did
fetchPlaceDetails(placeId, hasKey, outcome) ==
    IF ~hasKey THEN NullData
    ELSE IF placeId = <<>> THEN NullData
    ELSE IF outcome.kind = "networkError" THEN NullData
    ELSE IF outcome.kind = "httpError" THEN NullData
    ELSE IF outcome.kind = "badBody" THEN NullData
    ELSE normalizePlaceDetails(outcome.data, placeId)

RawData(name, rating, count, priceLevel, label, hours) ==
    [displayName |-> name, formattedAddress |-> sAddr, rating |-> rating,
     userRatingCount |-> count, priceLevel |-> priceLevel,
     primaryTypeDisplayName |-> label, nationalPhoneNumber |-> sPhone,
     websiteUri |-> <<>>, regularOpeningHours |-> hours]

rawOpen == RawData(sVCafe, 4, 12, 1, sCafe,
                   [openNow |-> "true", weekdayDescriptions |-> <<sMon, sTue>>])
rawClosed == RawData(sJoes, 5, NullNum, 2, <<>>,
                     [openNow |-> "false", weekdayDescriptions |-> <<>>])
rawBare == RawData(<<>>, NullNum, NullNum, 0, <<>>, Undefined)

RawCatalog == {rawOpen, rawClosed, rawBare}

FetchOutcomes ==
    {[kind |-> "networkError"], [kind |-> "httpError"], [kind |-> "badBody"]}
    \cup {[kind |-> "ok", data |-> d] : d \in RawCatalog}

----------------------------------------------------------------------------
(* Intent Interpreter: src/api/ai.js, interpretMessageWithGemini *)

Msg(text) == [text |-> text]

MsgInterpFallback ==
    Msg("I can help you find places from your saved lists. What are you looking for?")
MsgInterpDefault == Msg("I can help you find places. What are you looking for?")
MsgProvider == Msg("(assistantMessage written by the provider)")
NoMsg == Msg("")

OrElseMsg(a, b) == IF a = NoMsg THEN b ELSE a

\* the fallback of lines 238-246 with the slots reset instead of kept
FallbackIntentReset(currentSlots) ==
    [intentType |-> "recommendations",
     slots |-> EmptySlots,
     targetPlaceName |-> <<>>,
     questionType |-> "",
     needsFollowUp |-> FALSE,
     questions |-> <<>>,
     assistantMessage |-> MsgInterpFallback]

FallbackIntent(currentSlots) ==
    [intentType |-> "recommendations",
     slots |-> currentSlots,
     targetPlaceName |-> <<>>,
     questionType |-> "",
     needsFollowUp |-> FALSE,
     questions |-> <<>>,
     assistantMessage |-> MsgInterpFallback]

\* outcome.kind: "networkError" (fetch rejects), "httpError" (!httpResponse.ok),
\* "badBody" (httpResponse.json() rejects), or "ok" with what JSON.parse makes
\* of the extracted text: "syntaxError", "null", or "object" (outcome.result)
interpretMessageWithGemini(currentSlots, hasKey, outcome) ==
    IF ~hasKey THEN FallbackIntent(currentSlots)
    ELSE IF outcome.kind # "ok" THEN FallbackIntent(currentSlots)
    ELSE IF outcome.parsed # "object" THEN FallbackIntent(currentSlots)
    ELSE LET result == outcome.result IN
        [intentType |-> IF result.intentType = "" THEN "recommendations"
                        ELSE result.intentType,
         slots |-> OrElse(result.slots, currentSlots),
         targetPlaceName |-> result.targetPlaceName,
         questionType |-> result.questionType,
         needsFollowUp |-> result.needsFollowUp,
         questions |-> result.questions,
         assistantMessage |-> OrElseMsg(result.assistantMessage, MsgInterpDefault)]

----------------------------------------------------------------------------
(* Candidate Filter: src/api/ai.js, filterCandidates *)

FilterCap == 50

\* [...].filter(Boolean).map(t => t.toLowerCase())
LowerTruthy(strs) ==
    {toLowerCase(strs[i]) : i \in {j \in 1..Len(strs) : strs[j] # <<>>}}

someIncludes(strSet, needle) == \E t \in strSet : includes(t, needle)

categoryFilter(p, slots) ==
    someIncludes(LowerTruthy(p.tags \o p.placeTags \o <<p.type, p.name>>),
                 toLowerCase(slots["category"]))

cuisineFilter(p, slots) ==
    someIncludes(LowerTruthy(p.tags \o p.placeTags \o <<p.name, p.notes>>),
                 toLowerCase(slots["cuisine"]))

targetLevels(price) == IF price = "cheap" THEN {0, 1} ELSE {2, 3}

\* the price filter dropping the places whose price level is unknown
priceFilterStrict(p, slots) ==
    p.priceLevel # NullNum /\ p.priceLevel \in targetLevels(slots["price"])

priceFilter(p, slots) ==
    IF p.priceLevel = NullNum THEN TRUE
    ELSE p.priceLevel \in targetLevels(slots["price"])

\* filterCandidates without the slice(0, 50) of line 298
filterCandidatesUncapped(store, slots, listName) ==
    LET scoped == IF listName # <<>> THEN getPlacesByListName(store, listName)
                  ELSE store
        byCategory == IF SlotStr(slots, "category")
                      THEN SelectSeq(scoped, LAMBDA p : categoryFilter(p, slots))
                      ELSE scoped
        byCuisine == IF SlotStr(slots, "cuisine")
                     THEN SelectSeq(byCategory, LAMBDA p : cuisineFilter(p, slots))
                     ELSE byCategory
    IN IF SlotPrice(slots) /\ slots["price"] # "any"
       THEN SelectSeq(byCuisine, LAMBDA p : priceFilter(p, slots))
       ELSE byCuisine

filterCandidates(store, slots, listName) ==
    LET scoped == IF listName # <<>> THEN getPlacesByListName(store, listName)
                  ELSE store
        byCategory == IF SlotStr(slots, "category")
                      THEN SelectSeq(scoped, LAMBDA p : categoryFilter(p, slots))
                      ELSE scoped
        byCuisine == IF SlotStr(slots, "cuisine")
                     THEN SelectSeq(byCategory, LAMBDA p : cuisineFilter(p, slots))
                     ELSE byCategory
        byPrice == IF SlotPrice(slots) /\ slots["price"] # "any"
                   THEN SelectSeq(byCuisine, LAMBDA p : priceFilter(p, slots))
                   ELSE byCuisine
    IN Take(byPrice, FilterCap)

----------------------------------------------------------------------------
(* Scorer: src/api/ai.js, calculateDistance and scorePlace *)

NoLocation == [noLocation |-> TRUE]

\* Haversine for two points of one meridian: dLng = 0, so a = sin^2(dLat/2),
\* c = |dLat| and R * c is the distance along the meridian
calculateDistance(lat1, lng1, lat2, lng2) == Abs(lat2 - lat1)

\* enrichedData?.categories?.primaryDisplayName (falsy when absent)
EnrLabel(e) == IF e = NullData THEN <<>> ELSE e.categories.primaryDisplayName
\* enrichedData?.rating is truthy
EnrHasRating(e) == e # NullData /\ e.rating # NullNum /\ e.rating # 0
\* enrichedData?.openingHours?.openNow
EnrOpenNow(e) ==
    IF e = NullData THEN "undefined"
    ELSE IF e.openingHours = NoHours THEN "undefined"
    ELSE e.openingHours.openNow

\* the category component reading the type and the enriched label only
categoryScoreNoTags(place, slots, e) ==
    IF SlotStr(slots, "category")
       /\ someIncludes(LowerTruthy(<<place.type, EnrLabel(e)>>),
                       toLowerCase(slots["category"]))
    THEN 20 ELSE 0

categoryScore(place, slots, e) ==
    IF SlotStr(slots, "category")
       /\ someIncludes(LowerTruthy(place.tags \o place.placeTags
                                   \o <<place.type, EnrLabel(e)>>),
                       toLowerCase(slots["category"]))
    THEN 20 ELSE 0

cuisineScore(place, slots, e) ==
    IF SlotStr(slots, "cuisine")
       /\ someIncludes(LowerTruthy(place.tags \o place.placeTags
                                   \o <<place.name, place.notes, EnrLabel(e)>>),
                       toLowerCase(slots["cuisine"]))
    THEN 15 ELSE 0

\* slots.price && slots.price !== 'any' && enrichedData?.priceLevel !== null:
\* for enrichedData = null the optional chain gives undefined, which is !== null
priceGuard(slots, e) ==
    /\ SlotPrice(slots)
    /\ slots["price"] # "any"
    /\ (e = NullData \/ e.priceLevel # NullNum)

\* enrichedData.priceLevel inside the guard: a TypeError when enrichedData is null
priceThrows(slots, e) == priceGuard(slots, e) /\ e = NullData

priceScore(slots, e) ==
    IF priceGuard(slots, e) /\ e # NullData
       /\ e.priceLevel \in targetLevels(slots["price"])
    THEN 10 ELSE 0

openNowScore(slots, e) ==
    IF Has(slots, "openNow") /\ slots["openNow"] = TRUE /\ EnrOpenNow(e) = "true"
    THEN 15
    ELSE IF Has(slots, "openNow") /\ slots["openNow"] = FALSE
            /\ EnrOpenNow(e) = "false"
    THEN 5 ELSE 0

ratingScore(e) == IF EnrHasRating(e) THEN Min(e.rating * 2, 10) ELSE 0

distanceScore(place, slots, userLocation) ==
    IF userLocation # NoLocation /\ place.lat # 0 /\ place.lng # 0
    THEN LET distance == calculateDistance(userLocation.lat, userLocation.lng,
                                           place.lat, place.lng)
         IN IF SlotDist(slots) /\ distance <= slots["distanceKm"] THEN 10
            ELSE IF distance <= 5 THEN 5
            ELSE 0
    ELSE 0

vibeScore(place, slots) ==
    IF SlotStr(slots, "vibe") /\ place.vibe # <<>>
       /\ includes(toLowerCase(place.vibe), toLowerCase(slots["vibe"]))
    THEN 10 ELSE 0

\* [threw |-> TRUE] when the call ends in an exception, else the returned score
scorePlace(place, slots, enrichedData, userLocation) ==
    IF priceThrows(slots, enrichedData)
    THEN [threw |-> TRUE, score |-> 0]
    ELSE [threw |-> FALSE,
          score |-> categoryScore(place, slots, enrichedData)
                    + cuisineScore(place, slots, enrichedData)
                    + priceScore(slots, enrichedData)
                    + openNowScore(slots, enrichedData)
                    + ratingScore(enrichedData)
                    + distanceScore(place, slots, userLocation)
                    + vibeScore(place, slots)]

----------------------------------------------------------------------------
(* Explanation Generator: src/api/ai.js, generateBatchExplanations *)

\* `Great ${label || 'place'} with ${rating ? `${rating} rating` : 'good reviews'}.`
Template(e) ==
    [template |-> TRUE,
     label |-> OrElseStr(EnrLabel(e), <<"p", "l", "a", "c", "e">>),
     rating |-> IF EnrHasRating(e) THEN e.rating ELSE NullNum]

Templates(top5Places) ==
    [i \in 1..Len(top5Places) |-> Template(top5Places[i].enrichedData)]

\* generateBatchExplanations merging a short provider array with templates
generateBatchExplanationsMerge(top5Places, slots, hasKey, outcome) ==
    IF ~hasKey THEN Templates(top5Places)
    ELSE IF outcome.kind # "ok" THEN Templates(top5Places)
    ELSE IF outcome.parsed # "array" THEN Templates(top5Places)
    ELSE [i \in 1..Len(top5Places) |->
             IF i <= Len(outcome.array) THEN outcome.array[i]
             ELSE Template(top5Places[i].enrichedData)]

\* outcome.kind as for the interpreter; outcome.parsed is "syntaxError",
\* "notArray" or "array" (outcome.array, what JSON.parse returned)
generateBatchExplanations(top5Places, slots, hasKey, outcome) ==
    IF ~hasKey THEN Templates(top5Places)
    ELSE IF outcome.kind # "ok" THEN Templates(top5Places)
    ELSE IF outcome.parsed = "syntaxError" THEN Templates(top5Places)
    ELSE IF outcome.parsed = "array" /\ Len(outcome.array) = Len(top5Places)
    THEN outcome.array
    ELSE Templates(top5Places)

----------------------------------------------------------------------------
(* Chat Orchestrator: src/api/ai.js, handleChatSaved -- helpers *)

\* invocations of handleChatSaved that may be in progress at once
Turns == {1, 2}
SessionIds == {"s1", "s2"}
NoObj == 0
ObjIds == 1..(Cardinality(SessionIds) + Cardinality(Turns))

GreetingWords ==
    {<<"h", "i">>, <<"h", "e", "l", "l", "o">>, <<"h", "e", "y">>,
     <<"g", "r", "e", "e", "t", "i", "n", "g", "s">>,
     <<"h", "o", "w", "d", "y">>,
     <<"h", "i", " ", "t", "h", "e", "r", "e">>,
     <<"h", "e", "l", "l", "o", " ", "t", "h", "e", "r", "e">>,
     <<"h", "e", "y", " ", "t", "h", "e", "r", "e">>}
ShortGreetingWords == {<<"h", "i">>, <<"h", "e", "l", "l", "o">>, <<"h", "e", "y">>}
GreetingEnd == {" ", "!", ".", ",", "?"}

\* ^(w1|w2|...)(\s|$|[!.,?]) tested on s from position `from`
WordThenEnd(s, words, from) ==
    \E w \in words :
        /\ startsWith(SubSeq(s, from, Len(s)), w)
        /\ (Len(s) = from - 1 + Len(w) \/ s[from + Len(w)] \in GreetingEnd)

\* greetingPatterns.some(pattern => pattern.test(messageLower))
greetingPatternsTest(messageLower) ==
    \/ WordThenEnd(messageLower, GreetingWords, 1)
    \/ WordThenEnd(messageLower, ShortGreetingWords, 1)
    \/ (messageLower # <<>> /\ IsSpace(messageLower[1])
        /\ WordThenEnd(messageLower, ShortGreetingWords, 2))

GreetingTokenLimit == 5

\* isGreeting testing the message as sent, neither lower-cased nor trimmed
isGreetingRaw(message) ==
    greetingPatternsTest(message) /\ splitLength(message) <= GreetingTokenLimit

isGreeting(message) ==
    LET messageLower == trim(toLowerCase(message)) IN
    greetingPatternsTest(messageLower) /\ splitLength(messageLower) <= GreetingTokenLimit

\* the validation of line 564 without its !message test
messageRejectedTypeOnly(message) == message.type # "string"

\* !message || typeof message !== 'string'
messageRejected(message) == message.type # "string" \/ message.text = <<>>

\* the target taken as the first place matching by substring, exact or not
findTargetPlaceFirstMatch(allPlaces, targetPlaceName) ==
    IF targetPlaceName = <<>> THEN 0
    ELSE LET searchName == toLowerCase(targetPlaceName)
             fuzzy(p) == \/ (p.name # <<>> /\ includes(toLowerCase(p.name), searchName))
                         \/ includes(searchName, toLowerCase(p.name))
         IN FirstIndex(allPlaces, fuzzy)

\* allPlaces.find(exact) || allPlaces.find(fuzzy); 0 when targetPlace is null
findTargetPlace(allPlaces, targetPlaceName) ==
    IF targetPlaceName = <<>> THEN 0
    ELSE LET searchName == toLowerCase(targetPlaceName)
             exact(p) == p.name # <<>> /\ toLowerCase(p.name) = searchName
             fuzzy(p) == \/ (p.name # <<>> /\ includes(toLowerCase(p.name), searchName))
                         \/ includes(searchName, toLowerCase(p.name))
         IN IF FirstIndex(allPlaces, exact) # 0 THEN FirstIndex(allPlaces, exact)
            ELSE FirstIndex(allPlaces, fuzzy)

WeekdayLines == 7

\* The answer of the informational branch; [threw |-> TRUE] when building it
\* raises inside the try block (a property read on null)
InfoAnswer(targetPlace, questionType, e) ==
    IF questionType \in {"openingHours", "openNow"}
    THEN IF EnrOpenNow(e) = "undefined" THEN [threw |-> TRUE]
         ELSE IF EnrOpenNow(e) # "null"
         THEN [threw |-> FALSE,
               answer |-> [kind |-> "openStatus", name |-> targetPlace.name,
                           isOpen |-> EnrOpenNow(e) = "true",
                           hours |-> Take(e.openingHours.weekdayText, WeekdayLines)]]
         ELSE [threw |-> FALSE,
               answer |-> [kind |-> "noHours", name |-> targetPlace.name]]
    ELSE IF questionType = "rating"
    THEN IF EnrHasRating(e)
         THEN [threw |-> FALSE,
               answer |-> [kind |-> "rating", name |-> targetPlace.name,
                           rating |-> e.rating,
                           reviewCount |-> IF e.userRatingCount = NullNum THEN 0
                                           ELSE e.userRatingCount]]
         ELSE [threw |-> FALSE,
               answer |-> [kind |-> "noRating", name |-> targetPlace.name]]
    ELSE IF questionType = "address"
    THEN [threw |-> FALSE,
          answer |-> [kind |-> "address", name |-> targetPlace.name,
                      address |-> OrElseStr(IF e = NullData THEN <<>> ELSE e.address,
                                            targetPlace.address)]]
    ELSE IF questionType = "phone"
    THEN IF e # NullData /\ e.contact.phone # <<>>
         THEN [threw |-> FALSE,
               answer |-> [kind |-> "phone", name |-> targetPlace.name,
                           phone |-> e.contact.phone]]
         ELSE [threw |-> FALSE,
               answer |-> [kind |-> "noPhone", name |-> targetPlace.name]]
    ELSE IF questionType = "website"
    THEN IF e # NullData /\ e.contact.website # <<>>
         THEN [threw |-> FALSE,
               answer |-> [kind |-> "website", name |-> targetPlace.name,
                           website |-> e.contact.website]]
         ELSE [threw |-> FALSE,
               answer |-> [kind |-> "noWebsite", name |-> targetPlace.name]]
    ELSE IF EnrOpenNow(e) = "undefined" THEN [threw |-> TRUE]
    ELSE [threw |-> FALSE,
          answer |-> [kind |-> "general", name |-> targetPlace.name,
                      address |-> e.address,
                      rating |-> IF EnrHasRating(e) THEN e.rating ELSE NullNum,
                      status |-> EnrOpenNow(e),
                      phone |-> e.contact.phone,
                      website |-> e.contact.website]]

----------------------------------------------------------------------------
(* Enrichment Gate and ranking: src/api/ai.js, handleChatSaved lines 733-768 *)

EnrichCap == 20
UnenrichedCap == 10
TopN == 5

\* the enrichment gate slicing one place too many
topCandidatesForEnrichmentOffByOne(scoredCandidates) ==
    Take(SelectSeq(scoredCandidates, LAMBDA p : p.placeId # <<>>), EnrichCap + 1)

\* scoredCandidates.filter(p => p.placeId).slice(0, 20)
topCandidatesForEnrichment(scoredCandidates) ==
    Take(SelectSeq(scoredCandidates, LAMBDA p : p.placeId # <<>>), EnrichCap)

\* scoredCandidates.filter(p => !p.placeId).slice(0, 10).map(...)
placesWithoutEnrichment(scoredCandidates) ==
    LET without == Take(SelectSeq(scoredCandidates, LAMBDA p : p.placeId = <<>>),
                        UnenrichedCap)
    IN [i \in 1..Len(without) |-> [place |-> without[i], enrichedData |-> NullData]]

\* [...enrichedCandidates, ...placesWithoutEnrichment]
allCandidatesForRanking(enrichedCandidates, scoredCandidates) ==
    enrichedCandidates \o placesWithoutEnrichment(scoredCandidates)

\* allCandidatesForRanking.map(... scorePlace ...): the scores, or threw
scoreAll(pool, slots, userLocation) ==
    LET r(i) == scorePlace(pool[i].place, slots, pool[i].enrichedData, userLocation) IN
    IF \E i \in 1..Len(pool) : r(i).threw
    THEN [threw |-> TRUE]
    ELSE [threw |-> FALSE,
          scored |-> [i \in 1..Len(pool) |->
                         [place |-> pool[i].place,
                          enrichedData |-> pool[i].enrichedData,
                          score |-> r(i).score]]]

\* one step of a stable descending sort: x goes after every element whose
\* score is not smaller than its own
InsertByScore(sorted, x) ==
    LET k == Cardinality({i \in 1..Len(sorted) : sorted[i].score >= x.score}) IN
    SubSeq(sorted, 1, k) \o <<x>> \o SubSeq(sorted, k + 1, Len(sorted))

RECURSIVE sortByScoreDesc(_)
\* scored.sort((a, b) => b.score - a.score), a stable sort
sortByScoreDesc(scored) ==
    IF scored = <<>> THEN <<>>
    ELSE InsertByScore(sortByScoreDesc(SubSeq(scored, 1, Len(scored) - 1)),
                       scored[Len(scored)])

\* the top 5 taken without the sort of line 765
top5OfUnsorted(scored) == Take(scored, TopN)

top5Of(scored) == Take(sortByScoreDesc(scored), TopN)

\* top5.map(...): the fields of a result record the claims read
formatResults(top5, explanations) ==
    [i \in 1..Len(top5) |->
        [id |-> top5[i].place.id,
         placeId |-> top5[i].place.placeId,
         openNow |-> IF EnrOpenNow(top5[i].enrichedData) = "undefined" THEN "null"
                     ELSE EnrOpenNow(top5[i].enrichedData),
         why |-> IF i <= Len(explanations) /\ explanations[i] # NoMsg
                 THEN explanations[i]
                 ELSE Template(top5[i].enrichedData),
         score |-> top5[i].score,
         enriched |-> top5[i].enrichedData # NullData]]

----------------------------------------------------------------------------
(* Inputs of the model: requests and provider outcomes *)

StrMsg(text) == [type |-> "string", text |-> text]

Messages ==
    {StrMsg(<<"h", "i">>),
     StrMsg(<<" ", "H", "i", " ", "t", "h", "e", "r", "e", "!">>),
     StrMsg(<<"h", "i", " ", "a", " ", "b", " ", "c", " ", "d", " ", "e">>),
     StrMsg(<<"h", "i", "r", "e">>),
     StrMsg(<<>>),
     [type |-> "undefined", text |-> <<>>],
     [type |-> "number", text |-> <<>>]}

ListNames == {<<>>, sList}
UserLocations == {NoLocation, [lat |-> 2, lng |-> 7]}
InitialSlots == {EmptySlots, [price |-> "any"]}

ProviderSlots ==
    {EmptySlots,
     [category |-> sVegan],
     [price |-> "cheap"],
     [cuisine |-> sVegan, openNow |-> TRUE, distanceKm |-> 2]}

TargetNames == {<<>>, sJoe, <<"v", "e", "g", "a", "n", " ", "c", "a", "f", "e">>,
                <<"z", "z">>}
QuestionTypes ==
    {"openingHours", "openNow", "rating", "address", "phone", "website", "general"}

FailureOutcomes ==
    {[kind |-> "networkError"], [kind |-> "httpError"], [kind |-> "badBody"],
     [kind |-> "ok", parsed |-> "syntaxError"]}

IntentObject(intentType, slots, target, qtype, questions, msg) ==
    [kind |-> "ok", parsed |-> "object",
     result |-> [intentType |-> intentType, slots |-> slots,
                 targetPlaceName |-> target, questionType |-> qtype,
                 needsFollowUp |-> FALSE, questions |-> questions,
                 assistantMessage |-> msg]]

InterpOutcomes ==
    FailureOutcomes
    \cup {[kind |-> "ok", parsed |-> "null"]}
    \cup {IntentObject("informational", sl, n, q, <<>>, m) :
            sl \in {Undefined, [price |-> "cheap"]}, n \in TargetNames,
            q \in QuestionTypes, m \in {NoMsg, MsgProvider}}
    \cup {IntentObject(it, sl, <<>>, "", qm[1], qm[2]) :
            it \in {"", "recommendations"},
            sl \in {Undefined} \cup ProviderSlots,
            qm \in {<<<<>>, NoMsg>>, <<<<"q1", "q2">>, MsgProvider>>}}

ProviderWhy(i) == [text |-> "(explanation written by the provider)", index |-> i]

\* what the provider may answer to a request for n explanations
ExplainOutcomes(n) ==
    FailureOutcomes
    \cup {[kind |-> "ok", parsed |-> "notArray"]}
    \cup {[kind |-> "ok", parsed |-> "array",
           array |-> [i \in 1..k |-> ProviderWhy(i)]] : k \in 0..(n + 1)}
    \cup {[kind |-> "ok", parsed |-> "array",
           array |-> [i \in 1..n |-> IF i = 1 THEN NoMsg ELSE ProviderWhy(i)]]}

----------------------------------------------------------------------------
(* Chat Orchestrator: src/api/ai.js, handleChatSaved -- state and steps *)

Idle == [pc |-> "idle"]
NoResp == [sent |-> FALSE]
NoMessage == [type |-> "none", text |-> <<>>]
\* what a turn has done so far: the calls it made (interpret, fetch, score,
\* explain), the fetches that gave no data (failed), the size of the filter's
\* output (candidates, NullNum before the filter ran), and the request under
\* validation and interpretation (message, startSlots), and the session
\* identifier of the request (sessionId, "" before the first request), and
\* the requests the Explanation Generator sent to its provider (provider)
NoObs == [interpret |-> 0, fetch |-> 0, failed |-> 0, score |-> 0, explain |-> 0,
          candidates |-> NullNum, message |-> NoMessage, startSlots |-> EmptySlots,
          sessionId |-> "", provider |-> 0]
ObsAt(message, slots) == [NoObs EXCEPT !.message = message, !.startSlots = slots]
Pending == [pending |-> TRUE]
NoCall == [fn |-> "none"]

MsgGreeting ==
    Msg("Hi there! I can help you find places from your saved list. To get started, what kind of place are you looking for?")
MsgWhichPlace ==
    Msg("I couldn't find that place in your saved list. Which place are you asking about?")
MsgTryAdjust ==
    Msg("I couldn't find any places matching your criteria. Try adjusting your search!")
MsgRequired == Msg("Message is required")
MsgInternal == Msg("(error.message || 'Internal server error')")
MsgHereAre(n) == [text |-> "Here are n recommendations based on your saved places:", n |-> n]
MsgInfoFallback(name) ==
    [text |-> "I couldn't find detailed information for NAME. Would you like to see it in a recommendation list?",
     name |-> name]

Response(status, ok, branch, msg, slots, results, question) ==
    [sent |-> TRUE, status |-> status, ok |-> ok, branch |-> branch,
     assistantMessage |-> msg, updatedSlots |-> slots, results |-> results,
     optionalQuestion |-> question]

\* the optional question taken from the end of the provider's list
lastQuestion(questions) == IF Len(questions) > 0 THEN questions[Len(questions)] ELSE ""

\* interpretation.questions[0], or null ("")
firstQuestion(questions) == IF Len(questions) > 0 THEN questions[1] ELSE ""

\* the session of line 579 always built from the request's context.slots
sessionSlotsFromContext(stored, storedSlots, initialSlots) == initialSlots

\* line 579: the slots of sessions.get(sessionId) || { slots: initialSlots }
sessionSlots(stored, storedSlots, initialSlots) ==
    IF stored THEN storedSlots ELSE initialSlots

\* an informational response answering with empty slots
infoSlotsCleared(slots) == EmptySlots

\* updatedSlots: session.slots of the informational responses (lines 684,
\* 694 and 705)
infoSlots(slots) == slots

\* session objects some reference still reaches
Live(sess, trn) ==
    {sess[sid] : sid \in SessionIds}
    \cup {trn[t].session : t \in {u \in Turns : trn[u].pc # "idle"}}

\* unreachable session objects are forgotten
Collect(h, sess, trn) ==
    [o \in ObjIds |-> IF o \in Live(sess, trn) THEN h[o] ELSE EmptySlots]

\* one session object handed to every request that finds no stored session
SharedObj == CHOOSE o \in ObjIds : \A q \in ObjIds : o <= q

FreshObj == CHOOSE o \in ObjIds :
                /\ o \notin Live(sessions, turn)
                /\ \A q \in ObjIds : q \notin Live(sessions, turn) => o <= q

Init ==
    /\ places = <<>>
    /\ apiKey \in BOOLEAN
    /\ placesKey \in BOOLEAN
    /\ sessions = [sid \in SessionIds |-> NoObj]
    /\ heap = [o \in ObjIds |-> EmptySlots]
    /\ turn = [t \in Turns |-> Idle]
    /\ resp = [t \in Turns |-> NoResp]
    /\ obs = [t \in Turns |-> NoObs]
    /\ call = NoCall

\* the import endpoints add places to the store while the server runs
AddPlace(d) ==
    /\ Len(places) < MaxStore
    /\ \A i \in 1..Len(places) : places[i].name # d.name
    /\ places' = addPlace(places, d)
    /\ UNCHANGED <<apiKey, placesKey, sessions, heap, turn, resp, obs, call>>

\* the turn ends without a response being sent
FinishSilently(t, response, sess, h) ==
    /\ resp' = [resp EXCEPT ![t] = NoResp]
    /\ turn' = [turn EXCEPT ![t] = Idle]
    /\ sessions' = sess
    /\ heap' = Collect(h, sess, [turn EXCEPT ![t] = Idle])

\* the turn ends: the response is sent and the locals are dropped
Finish(t, response, sess, h) ==
    /\ resp' = [resp EXCEPT ![t] = response]
    /\ turn' = [turn EXCEPT ![t] = Idle]
    /\ sessions' = sess
    /\ heap' = Collect(h, sess, [turn EXCEPT ![t] = Idle])

\* lines 560-604: validation, session lookup, greeting check, and the call of
\* the Intent Interpreter (up to its await)
Begin(t, message, sessionId, listName, userLocation, initialSlots) ==
    /\ turn[t].pc = "idle"
    /\ LET stored == sessions[sessionId] # NoObj
           session == IF stored THEN sessions[sessionId] ELSE FreshObj
           slots == sessionSlots(stored, heap[session], initialSlots)
       IN IF messageRejected(message)
          THEN /\ Finish(t, Response(400, FALSE, "rejected", MsgRequired,
                                     EmptySlots, <<>>, ""), sessions, heap)
               /\ obs' = [obs EXCEPT ![t] = [ObsAt(message, EmptySlots)
                                                EXCEPT !.sessionId = sessionId]]
          ELSE IF isGreeting(message.text) /\ KeyCount(slots) = 0
          THEN /\ Finish(t, Response(200, TRUE, "greeting", MsgGreeting,
                                     slots, <<>>, ""), sessions, heap)
               /\ obs' = [obs EXCEPT ![t] = [ObsAt(message, slots)
                                                EXCEPT !.sessionId = sessionId]]
          ELSE /\ turn' = [turn EXCEPT ![t] =
                              [pc |-> "interpreting", message |-> message,
                               sessionId |-> sessionId,
                               listName |-> listName, userLocation |-> userLocation,
                               session |-> session, currentSlots |-> slots]]
               /\ heap' = [heap EXCEPT ![session] = slots]
               /\ resp' = [resp EXCEPT ![t] = NoResp]
               /\ obs' = [obs EXCEPT ![t] =
                             [ObsAt(message, slots) EXCEPT !.interpret = 1,
                                                           !.sessionId = sessionId]]
               /\ UNCHANGED sessions
    /\ UNCHANGED <<places, apiKey, placesKey, call>>

\* the empty-result check of line 723 never taken
noCandidatesNever(scoredCandidates) == Len(scoredCandidates) < 0

\* line 723: scoredCandidates.length === 0
noCandidates(scoredCandidates) == Len(scoredCandidates) = 0

\* lines 604-731: the interpretation arrives; the informational branch up to
\* its fetch, or the session update, the filter and the start of enrichment
InterpretReturn(t, outcome) ==
    /\ turn[t].pc = "interpreting"
    /\ LET me == turn[t]
           interpretation == interpretMessageWithGemini(me.currentSlots, apiKey, outcome)
           allPlaces == getAllPlaces(places)
           target == findTargetPlace(allPlaces, interpretation.targetPlaceName)
           newSlots == interpretation.slots
           scoredCandidates == filterCandidates(allPlaces, newSlots, me.listName)
           cands == topCandidatesForEnrichment(scoredCandidates)
       IN IF interpretation.intentType = "informational"
          THEN IF target # 0 /\ allPlaces[target].placeId # <<>>
               THEN /\ turn' = [turn EXCEPT ![t] =
                                   [pc |-> "infoFetching", sessionId |-> me.sessionId,
                                    session |-> me.session,
                                    questionType |-> interpretation.questionType,
                                    targetPlace |-> allPlaces[target]]]
                    /\ obs' = [obs EXCEPT ![t].fetch = @ + 1,
                                           ![t].message = NoMessage]
                    /\ UNCHANGED <<sessions, heap, resp>>
               ELSE /\ Finish(t, Response(200, TRUE, "notFound",
                                          OrElseMsg(interpretation.assistantMessage,
                                                    MsgWhichPlace),
                                          infoSlots(heap[me.session]), <<>>, ""),
                              sessions, heap)
                    /\ obs' = [obs EXCEPT ![t].message = NoMessage]
          ELSE LET sess == [sessions EXCEPT ![me.sessionId] = me.session]
                   h == [heap EXCEPT ![me.session] = newSlots]
               IN IF noCandidates(scoredCandidates)
                  THEN /\ Finish(t, Response(200, TRUE, "noCandidates", MsgTryAdjust,
                                             newSlots, <<>>, ""), sess, h)
                       /\ obs' = [obs EXCEPT ![t].message = NoMessage,
                                              ![t].candidates = Len(scoredCandidates)]
                  ELSE /\ turn' = [turn EXCEPT ![t] =
                                      [pc |-> "enriching", sessionId |-> me.sessionId,
                                       session |-> me.session,
                                       userLocation |-> me.userLocation,
                                       questions |-> interpretation.questions,
                                       assistantMessage |-> interpretation.assistantMessage,
                                       interpSlots |-> interpretation.slots,
                                       scoredCandidates |-> scoredCandidates,
                                       cands |-> cands,
                                       enriched |-> [i \in 1..Len(cands) |-> Pending]]]
                       /\ sessions' = sess
                       /\ heap' = Collect(h, sess, turn')
                       /\ obs' = [obs EXCEPT ![t].fetch = @ + Len(cands),
                                              ![t].message = NoMessage,
                                              ![t].candidates = Len(scoredCandidates)]
                       /\ UNCHANGED resp
    /\ UNCHANGED <<places, apiKey, placesKey, call>>

\* lines 737-745: one of the concurrent place-detail fetches settles
FetchReturn(t, i, outcome) ==
    /\ turn[t].pc = "enriching"
    /\ i \in 1..Len(turn[t].cands)
    /\ turn[t].enriched[i] = Pending
    /\ LET enrichedData == fetchPlaceDetails(turn[t].cands[i].placeId, placesKey,
                                             outcome)
       IN /\ turn' = [turn EXCEPT ![t].enriched[i] = enrichedData]
          /\ obs' = [obs EXCEPT ![t].failed =
                         IF enrichedData = NullData THEN @ + 1 ELSE @]
    /\ UNCHANGED <<places, apiKey, placesKey, sessions, heap, resp, call>>

\* an Explanation Generator asking the provider whatever the configuration
explainCallsAlways(hasKey) == 1

\* generateBatchExplanations, lines 389-395 and 428: the requests it sends to
\* the provider, none when no key is configured
explainCalls(hasKey) == IF hasKey THEN 1 ELSE 0

\* lines 748-788: Promise.all has resolved; scoring, sorting, top 5 and the
\* call of the Explanation Generator (up to its await)
Rank(t) ==
    /\ turn[t].pc = "enriching"
    /\ \A i \in 1..Len(turn[t].cands) : turn[t].enriched[i] # Pending
    /\ LET me == turn[t]
           slots == heap[me.session]
           enrichedCandidates ==
               [i \in 1..Len(me.cands) |->
                   [place |-> me.cands[i], enrichedData |-> me.enriched[i]]]
           firstThrow(pool) ==
               FirstIndex(pool,
                          LAMBDA c : scorePlace(c.place, slots, c.enrichedData,
                                                me.userLocation).threw)
       IN \* each list is bound once, by a quantifier over a singleton
          \E pool \in {allCandidatesForRanking(enrichedCandidates,
                                               me.scoredCandidates)} :
          \E r \in {scoreAll(pool, slots, me.userLocation)} :
          IF r.threw
          THEN /\ Finish(t, Response(500, FALSE, "internalError", MsgInternal,
                                     EmptySlots, <<>>, ""), sessions, heap)
               /\ obs' = [obs EXCEPT ![t].score = firstThrow(pool)]
          ELSE \E top5 \in {top5Of(r.scored)} :
               IF Len(top5) = 0
               THEN /\ Finish(t, Response(200, TRUE, "emptyTop5",
                                          OrElseMsg(me.assistantMessage, MsgTryAdjust),
                                          slots, <<>>, firstQuestion(me.questions)),
                              sessions, heap)
                    /\ obs' = [obs EXCEPT ![t].score = Len(pool)]
               ELSE /\ obs' = [obs EXCEPT ![t].score = Len(pool), ![t].explain = 1,
                                           ![t].provider = explainCalls(apiKey)]
                    /\ turn' = [turn EXCEPT ![t] =
                                   [pc |-> "explaining", sessionId |-> me.sessionId,
                                    session |-> me.session,
                                    questions |-> me.questions,
                                    assistantMessage |-> me.assistantMessage,
                                    interpSlots |-> me.interpSlots,
                                    pool |-> pool,
                                    top5 |-> top5,
                                    explainSlots |-> slots]]
                    /\ UNCHANGED <<sessions, heap, resp>>
    /\ UNCHANGED <<places, apiKey, placesKey, call>>

\* lines 788-831: the explanations arrive; the results are formatted and sent
ExplainReturn(t, outcome) ==
    /\ turn[t].pc = "explaining"
    /\ outcome \in ExplainOutcomes(Len(turn[t].top5))
    /\ LET me == turn[t]
           explanations == generateBatchExplanations(me.top5, me.explainSlots,
                                                     apiKey, outcome)
           results == formatResults(me.top5, explanations)
       IN Finish(t, Response(200, TRUE, "results",
                             OrElseMsg(me.assistantMessage, MsgHereAre(Len(results))),
                             heap[me.session], results, firstQuestion(me.questions)),
                 sessions, heap)
    /\ UNCHANGED <<places, apiKey, placesKey, obs, call>>

\* lines 626-698: the place details of the informational branch arrive
InfoFetchReturn(t, outcome) ==
    /\ turn[t].pc = "infoFetching"
    /\ LET me == turn[t]
           enrichedData == fetchPlaceDetails(me.targetPlace.placeId, placesKey, outcome)
           a == InfoAnswer(me.targetPlace, me.questionType, enrichedData)
       IN IF a.threw
          THEN Finish(t, Response(200, TRUE, "infoFallback",
                                  MsgInfoFallback(me.targetPlace.name),
                                  infoSlots(heap[me.session]), <<>>, ""),
                      sessions, heap)
          ELSE Finish(t, Response(200, TRUE, "infoAnswer", a.answer,
                                  infoSlots(heap[me.session]), <<>>, ""),
                      sessions, heap)
    /\ UNCHANGED <<places, apiKey, placesKey, obs, call>>

\* Spec: one client, whose turns follow one another on one session
SeqTurns == {1}

Next ==
    \/ \E d \in Catalog : AddPlace(d)
    \* a rejected request ends at line 569, before its context is read
    \/ \E t \in SeqTurns, m \in {x \in Messages : messageRejected(x)}, sid \in {"s1"} :
            Begin(t, m, sid, <<>>, NoLocation, EmptySlots)
    \/ \E t \in SeqTurns, m \in {x \in Messages : ~messageRejected(x)}, sid \in {"s1"},
          ln \in ListNames, loc \in UserLocations, sl \in InitialSlots :
            Begin(t, m, sid, ln, loc, sl)
    \/ \E t \in SeqTurns, o \in InterpOutcomes : InterpretReturn(t, o)
    \/ \E t \in SeqTurns, i \in 1..MaxStore, o \in FetchOutcomes : FetchReturn(t, i, o)
    \/ \E t \in SeqTurns : Rank(t)
    \/ \E t \in SeqTurns, o \in ExplainOutcomes(TopN) : ExplainReturn(t, o)
    \/ \E t \in SeqTurns, o \in FetchOutcomes : InfoFetchReturn(t, o)

Spec == Init /\ [][Next]_vars

----------------------------------------------------------------------------
(* SpecConc: two clients, each on its own session identifier, whose turns   *)
(* overlap: the steps of the two invocations of handleChatSaved interleave  *)
(* at their awaits                                                          *)

\* the session identifier of each client
ConcSession(t) == IF t = 1 THEN "s1" ELSE "s2"

\* what the providers answer while the two turns overlap
ConcInterpOutcomes ==
    {[kind |-> "networkError"],
     IntentObject("recommendations", Undefined, <<>>, "", <<>>, NoMsg),
     IntentObject("recommendations", EmptySlots, <<>>, "", <<>>, NoMsg),
     IntentObject("recommendations", [category |-> sVegan], <<>>, "", <<"q1", "q2">>,
                  MsgProvider),
     IntentObject("recommendations", [price |-> "cheap"], <<>>, "", <<>>, NoMsg),
     IntentObject("recommendations", [category |-> sBar], <<>>, "", <<>>, NoMsg),
     IntentObject("informational", [price |-> "cheap"], sVCafe, "rating", <<>>, NoMsg),
     IntentObject("informational", Undefined, sJoe, "openNow", <<>>, NoMsg)}

ConcFetchOutcomes == {[kind |-> "networkError"], [kind |-> "ok", data |-> rawOpen]}

\* the server has started and one place has been imported
InitConc ==
    /\ places = addPlace(<<>>, dVeganCafe)
    /\ apiKey = TRUE
    /\ placesKey = TRUE
    /\ sessions = [sid \in SessionIds |-> NoObj]
    /\ heap = [o \in ObjIds |-> EmptySlots]
    /\ turn = [t \in Turns |-> Idle]
    /\ resp = [t \in Turns |-> NoResp]
    /\ obs = [t \in Turns |-> NoObs]
    /\ call = NoCall

NextConc ==
    \/ \E t \in Turns, m \in {StrMsg(<<"h", "i">>), StrMsg(<<"h", "i", "r", "e">>),
                               StrMsg(<<>>)},
          sl \in InitialSlots :
            Begin(t, m, ConcSession(t), <<>>, NoLocation, sl)
    \/ \E t \in Turns, o \in ConcInterpOutcomes : InterpretReturn(t, o)
    \/ \E t \in Turns, o \in ConcFetchOutcomes : FetchReturn(t, 1, o)
    \/ \E t \in Turns : Rank(t)
    \/ \E t \in Turns : ExplainReturn(t, [kind |-> "networkError"])
    \/ \E t \in Turns, o \in ConcFetchOutcomes : InfoFetchReturn(t, o)

SpecConc == InitConc /\ [][NextConc]_vars

----------------------------------------------------------------------------
(* SpecLive: SpecConc with every provider call eventually returning or       *)
(* failing, and every continuation of a turn eventually run by the event     *)
(* loop                                                                      *)

\* the continuation of turn t after the await it is suspended at
TurnStep(t) ==
    \/ \E o \in ConcInterpOutcomes : InterpretReturn(t, o)
    \/ \E o \in ConcFetchOutcomes : FetchReturn(t, 1, o)
    \/ Rank(t)
    \/ ExplainReturn(t, [kind |-> "networkError"])
    \/ \E o \in ConcFetchOutcomes : InfoFetchReturn(t, o)

SpecLive == InitConc /\ [][NextConc]_vars /\ \A t \in Turns : WF_vars(TurnStep(t))

----------------------------------------------------------------------------
(* SpecPure: the pure functions of the core, called directly on inputs drawn *)
(* from bounded sets; call records the call and what it returned            *)

SlotKeys == {"category", "cuisine", "price", "vibe", "openNow", "distanceKm"}

SlotRows ==
    [category : {sVegan, sCafe}, cuisine : {sVegan}, price : {"cheap", "mid", "any"},
     vibe : {sCozy}, openNow : BOOLEAN, distanceKm : {2, 50}]

\* every slots object over the recognised dimensions
AllSlots == {[k \in D |-> row[k]] : D \in SUBSET SlotKeys, row \in SlotRows}

\* the catalog's places as the store holds them
StoredPlaces == {addPlace(<<>>, d)[1] : d \in Catalog}

\* what an enrichment may yield for a place
EnrichedValues ==
    {NullData} \cup {normalizePlaceDetails(d, sG1) : d \in RawCatalog}

CallScorePlace(place, slots, enrichedData, userLocation) ==
    /\ call' = [fn |-> "scorePlace", place |-> place, slots |-> slots,
                enrichedData |-> enrichedData, userLocation |-> userLocation,
                result |-> scorePlace(place, slots, enrichedData, userLocation)]
    /\ UNCHANGED <<places, apiKey, placesKey, sessions, heap, turn, resp, obs>>

RECURSIVE addBlock(_, _, _)
\* n more places like d at the end of the store
addBlock(store, d, n) ==
    IF n = 0 THEN store ELSE addBlock(addPlace(store, d), d, n - 1)

\* a store of a places with an external identifier, then b without, then c
\* with and d without
BlockStore(a, b, c, d) ==
    addBlock(addBlock(addBlock(addBlock(<<>>, dJoes, a), dJoe, b), dJoes, c), dJoe, d)

\* id and external identifier of each place of a list
Brief(placeSeq) ==
    [i \in 1..Len(placeSeq) |-> [id |-> placeSeq[i].id, placeId |-> placeSeq[i].placeId]]

\* lines 733-755 with every fetch failing
gatePool(scoredCandidates) ==
    \* each list is bound once, by a quantifier over a singleton
    CHOOSE pool \in
        {allCandidatesForRanking(
            [i \in 1..Len(cands) |-> [place |-> cands[i], enrichedData |-> NullData]],
            scoredCandidates) : cands \in {topCandidatesForEnrichment(scoredCandidates)}} :
        TRUE

\* lines 721-755 on a store of up to 4 * MaxBlock places (at most FilterCap pass the filter), without the fetches
CallGate(a, b, c, d) ==
    /\ \E scoredCandidates \in {filterCandidates(BlockStore(a, b, c, d), EmptySlots, <<>>)} :
       \E pool \in {gatePool(scoredCandidates)} :
          call' = [fn |-> "gate",
                   candidates |-> Brief(scoredCandidates),
                   pool |-> Brief([i \in 1..Len(pool) |-> pool[i].place])]
    /\ UNCHANGED <<places, apiKey, placesKey, sessions, heap, turn, resp, obs>>

\* n ranked candidates, the v-th enrichment value first
RankedCandidates(n, v) ==
    LET values == <<NullData, normalizePlaceDetails(rawOpen, sG1),
                    normalizePlaceDetails(rawClosed, sG2),
                    normalizePlaceDetails(rawBare, sG3)>>
    IN [i \in 1..n |->
           [place |-> addBlock(<<>>, dJoes, i)[i],
            enrichedData |-> values[((i + v) % 4) + 1],
            score |-> 0]]

CallExplain(n, v, outcome) ==
    /\ outcome \in ExplainOutcomes(n)
    /\ call' = [fn |-> "explain", top5Places |-> RankedCandidates(n, v),
                hasKey |-> apiKey, outcome |-> outcome,
                result |-> generateBatchExplanations(RankedCandidates(n, v),
                                                     EmptySlots, apiKey, outcome)]
    /\ UNCHANGED <<places, apiKey, placesKey, sessions, heap, turn, resp, obs>>

CallInterpret(currentSlots, outcome) ==
    /\ call' = [fn |-> "interpret", currentSlots |-> currentSlots,
                hasKey |-> apiKey, outcome |-> outcome,
                result |-> interpretMessageWithGemini(currentSlots, apiKey, outcome)]
    /\ UNCHANGED <<places, apiKey, placesKey, sessions, heap, turn, resp, obs>>

\* places the filter is called on: the catalog's and two more price levels
dMid == PlaceData(<<"M", "i", "d">>, 4, <<sVegan>>, <<>>, <<>>, <<>>, 2, <<>>, sList)
dLux == PlaceData(<<"L", "u", "x">>, 5, <<>>, sCafe, <<>>, sVegan, 4, sG1, <<>>)

\* a store of six kinds of places: c tagged 'cafe', then a and b matching
\* 'vegan', then d, e and f of other price levels
MixedStore(a, b, c, d, e, f) ==
    addBlock(addBlock(addBlock(addBlock(addBlock(addBlock(<<>>,
        dNook, c), dJoes, a), dVeganCafe, b), dJoe, d), dMid, e), dLux, f)

\* the slots the filter is called with
FilterSlots ==
    {EmptySlots, [price |-> "any"], [price |-> ""], [category |-> <<>>],
     [category |-> sVegan], [cuisine |-> sVegan],
     [price |-> "cheap"], [price |-> "mid"], [price |-> "expensive"],
     [category |-> sCafe, price |-> "cheap"],
     [category |-> sVegan, cuisine |-> sVegan, price |-> "mid", openNow |-> TRUE]}

CallFilter(store, slots, listName) ==
    /\ call' = [fn |-> "filter", places |-> store, slots |-> slots,
                listName |-> listName,
                result |-> filterCandidates(store, slots, listName)]
    /\ UNCHANGED <<places, apiKey, placesKey, sessions, heap, turn, resp, obs>>

\* tags a place may get in addition
ExtraTags == {sVegan, sCafe, sVCafe}

\* place with one more tag
withTag(place, tag) == [place EXCEPT !.tags = Append(@, tag)]

\* scorePlace on a place and on the same place with one more tag, the rest
\* of the arguments being the same
CallScorePair(place, tag, slots, enrichedData, userLocation) ==
    /\ call' = [fn |-> "scorePair", place |-> place, tag |-> tag, slots |-> slots,
                enrichedData |-> enrichedData, userLocation |-> userLocation,
                before |-> scorePlace(place, slots, enrichedData, userLocation),
                after |-> scorePlace(withTag(place, tag), slots, enrichedData,
                                     userLocation)]
    /\ UNCHANGED <<places, apiKey, placesKey, sessions, heap, turn, resp, obs>>

\* the slots a recommendation is computed for
RankSlots ==
    {EmptySlots, [category |-> sVegan], [cuisine |-> sVegan],
     [category |-> sCafe, distanceKm |-> 2], [category |-> sVegan, price |-> "cheap"],
     [vibe |-> sCozy, openNow |-> TRUE]}

\* what the fetches of a turn yield: the v-th enrichment value for the first
\* candidate, the next one for the second, and so on
EnrichedBy(cands, v) ==
    LET values == <<NullData, normalizePlaceDetails(rawOpen, sG1),
                    normalizePlaceDetails(rawClosed, sG2),
                    normalizePlaceDetails(rawBare, sG3)>>
    IN [i \in 1..Len(cands) |->
           [place |-> cands[i], enrichedData |-> values[((i + v) % 4) + 1]]]

\* lines 716-768 and 791-817 of a recommendation turn: filter, gate, scores,
\* sort, top 5 and the result records
recommend(store, slots, listName, userLocation, v) ==
    LET scoredCandidates == filterCandidates(getAllPlaces(store), slots, listName)
        pool == allCandidatesForRanking(
                    EnrichedBy(topCandidatesForEnrichment(scoredCandidates), v),
                    scoredCandidates)
        r == scoreAll(pool, slots, userLocation)
    IN IF r.threw
       THEN [threw |-> TRUE, scored |-> <<>>, results |-> <<>>]
       ELSE [threw |-> FALSE,
             scored |-> [i \in 1..Len(r.scored) |->
                            [id |-> r.scored[i].place.id, score |-> r.scored[i].score]],
             results |-> formatResults(top5Of(r.scored), <<>>)]

CallRecommend(store, slots, userLocation, v) ==
    /\ \E out \in {recommend(store, slots, <<>>, userLocation, v)} :
          call' = [fn |-> "recommend", places |-> store, slots |-> slots,
                   listName |-> <<>>, userLocation |-> userLocation,
                   threw |-> out.threw, scored |-> out.scored,
                   results |-> [i \in 1..Len(out.results) |->
                                   [id |-> out.results[i].id,
                                    score |-> out.results[i].score]]]
    /\ UNCHANGED <<places, apiKey, placesKey, sessions, heap, turn, resp, obs>>

\* POST /api/import-csv (server.js). A CSV text is what csv-parse makes of
\* it: ok is FALSE when parse throws, rows are the Title cells of its records.
\* The rows modelled carry no URL and no Note, as no stored place does.
CsvText(ok, rows) == [ok |-> ok, rows |-> rows]

MaxRows == 2

ImportContents ==
    {CsvText(FALSE, <<>>), CsvText(TRUE, <<>>), CsvText(TRUE, <<<<>>, sJoe>>),
     CsvText(TRUE, <<sJoe, sJoes>>), CsvText(TRUE, <<sJoes>>)}

\* import.js parseCSV: a first record without a Title is the list's metadata
\* row, later records without a Title are left out
parseCSV(csvContent, listName) ==
    IF ~csvContent.ok THEN [threw |-> TRUE, places |-> <<>>, totalRows |-> 0]
    ELSE LET records == csvContent.rows
             rest == IF Len(records) > 0 /\ trim(records[1]) = <<>>
                     THEN Tail(records) ELSE records
             titled == SelectSeq(rest, LAMBDA t : trim(t) # <<>>)
         IN [threw |-> FALSE,
             places |-> [i \in 1..Len(titled) |->
                            [name |-> trim(titled[i]), lat |-> NullNum,
                             lng |-> NullNum, address |-> <<>>,
                             listName |-> listName, placeTags |-> <<>>,
                             notes |-> <<>>, tags |-> <<>>, type |-> <<>>,
                             vibe |-> <<>>, priceLevel |-> NullNum,
                             placeId |-> <<>>]],
             totalRows |-> Len(records)]

\* part_000 placeExistsByUrl for a row and stored places without URL
placeExistsByUrl(store, name, note) ==
    /\ name # <<>>
    /\ \E i \in 1..Len(store) :
          /\ store[i].name = name
          /\ IF note # <<>> /\ store[i].notes # <<>>
             THEN store[i].notes = note
             ELSE note = <<>> /\ store[i].notes = <<>>

\* the loop of processCSVFile from the i-th parsed place on
RECURSIVE importFrom(_, _, _)
importFrom(acc, parsedPlaces, i) ==
    IF i > Len(parsedPlaces) THEN acc
    ELSE LET placeData == parsedPlaces[i] IN
         IF placeData.name = <<>> \/ trim(placeData.name) = <<>>
         THEN importFrom([acc EXCEPT !.skipped = @ + 1], parsedPlaces, i + 1)
         ELSE IF placeExistsByUrl(acc.store, placeData.name, placeData.notes)
         THEN importFrom([acc EXCEPT !.duplicates = @ + 1], parsedPlaces, i + 1)
         ELSE importFrom([acc EXCEPT !.store = addPlace(@, placeData),
                                     !.imported = @ + 1,
                                     !.importedPlaceIds =
                                         Append(@, Len(acc.store) + 1)],
                         parsedPlaces, i + 1)

\* server.js processCSVFile
processCSVFile(store, csvContent, listName) ==
    LET parsed == parseCSV(csvContent, listName)
        start == [threw |-> parsed.threw, store |-> store, imported |-> 0,
                  duplicates |-> 0, skipped |-> 0, importedPlaceIds |-> <<>>]
    IN IF parsed.threw THEN start ELSE importFrom(start, parsed.places, 1)

\* the ZIP branch's loop over the archive's CSV entries from the i-th on; a
\* throw leaves the loop
RECURSIVE importEntries(_, _, _)
importEntries(acc, csvEntries, i) ==
    IF acc.threw \/ i > Len(csvEntries) THEN acc
    ELSE LET r == processCSVFile(acc.store, csvEntries[i].content, sList)
         IN importEntries([threw |-> r.threw, store |-> r.store,
                           imported |-> acc.imported + r.imported,
                           importedPlaceIds |->
                               acc.importedPlaceIds \o r.importedPlaceIds],
                          csvEntries, i + 1)

\* what the handler has done when it is over: the branches it entered, the
\* res.json calls it made in order (by status), the texts it handed to
\* processCSVFile as a single CSV, the store, and the timers it set
ImportDone(branches, jsonCalls, singleParsed, store, zipStore, timers) ==
    [branches |-> branches, jsonCalls |-> jsonCalls,
     singleParsed |-> singleParsed, places |-> store, zipPlaces |-> zipStore,
     timers |-> timers]

\* lines 394-432: the single-CSV part, entered with the branches taken, the
\* res.json calls made and the timers set so far. res.json on a response
\* already sent throws, and so does the catch block's own res.json
importSingle(store, buffer, branches, jsonCalls, timers) ==
    LET result == processCSVFile(store, buffer, sList)
        sentBefore == jsonCalls # <<>>
    IN IF result.threw
       THEN ImportDone(Append(branches, "csv"), Append(jsonCalls, 500),
                       <<buffer>>, store, store, timers)
       ELSE IF sentBefore
       THEN ImportDone(Append(branches, "csv"), jsonCalls \o <<200, 500>>,
                       <<buffer>>, result.store, store, timers)
       ELSE ImportDone(Append(branches, "csv"), Append(jsonCalls, 200),
                       <<buffer>>, result.store, store,
                       IF Len(result.importedPlaceIds) > 0
                       THEN timers + 1 ELSE timers)

\* lines 278-439. The upload is absent, a file that is not named *.zip, or a
\* file named *.zip: archiveOk tells whether AdmZip reads it, entries are its
\* entries, buffer is what csv-parse makes of the file's own bytes
importCsv(store, upload) ==
    IF upload.kind = "none"
    THEN ImportDone(<<>>, <<400>>, <<>>, store, store, 0)
    ELSE IF upload.kind = "csv"
    THEN importSingle(store, upload.buffer, <<>>, <<>>, 0)
    ELSE IF ~upload.archiveOk
    THEN ImportDone(<<"zip">>, <<500>>, <<>>, store, store, 0)
    ELSE LET csvEntries == SelectSeq(upload.entries, LAMBDA e : e.csv)
         IN IF Len(csvEntries) = 0
            THEN ImportDone(<<"zip">>, <<400>>, <<>>, store, store, 0)
            ELSE LET z == importEntries([threw |-> FALSE, store |-> store,
                                         imported |-> 0,
                                         importedPlaceIds |-> <<>>],
                                        csvEntries, 1)
                 IN IF z.threw
                    THEN ImportDone(<<"zip">>, <<500>>, <<>>, z.store, z.store, 0)
                    ELSE importSingle(z.store, upload.buffer, <<"zip">>, <<200>>,
                                      IF Len(z.importedPlaceIds) > 0
                                      THEN 1 ELSE 0)

ZipEntries ==
    {[csv |-> FALSE, content |-> CsvText(TRUE, <<>>)]}
    \cup {[csv |-> TRUE, content |-> c] : c \in ImportContents}

Uploads ==
    {[kind |-> "none"]}
    \cup {[kind |-> "csv", buffer |-> c] : c \in ImportContents}
    \cup {[kind |-> "zip", archiveOk |-> FALSE, entries |-> <<>>,
           buffer |-> CsvText(FALSE, <<>>)]}
    \cup {[kind |-> "zip", archiveOk |-> TRUE, entries |-> e, buffer |-> c] :
            e \in UNION {[1..n -> ZipEntries] : n \in 0..MaxRows},
            c \in ImportContents}

CallImport(store, upload) ==
    /\ call' = [fn |-> "import", before |-> store, upload |-> upload,
                result |-> importCsv(store, upload)]
    /\ UNCHANGED <<places, apiKey, placesKey, sessions, heap, turn, resp, obs>>

\* a place whose name is one space, which POST /api/import accepts
dBlank == PlaceData(<<" ">>, 9, <<>>, <<>>, <<>>, <<>>, 0, sG3, <<>>)

\* the stores the target place is looked up in: up to three different saved
\* places, in any order
FindStores ==
    LET D == Catalog \cup {dBlank} IN
    {<<>>} \cup {addPlace(<<>>, a) : a \in D}
    \cup {addPlace(addPlace(<<>>, x[1]), x[2]) :
            x \in {y \in D \X D : y[1] # y[2]}}
    \cup {addPlace(addPlace(addPlace(<<>>, x[1]), x[2]), x[3]) :
            x \in {y \in D \X D \X D :
                      y[1] # y[2] /\ y[1] # y[3] /\ y[2] # y[3]}}

\* lines 610-621: the place an informational question is about
CallFind(store, targetPlaceName) ==
    /\ call' = [fn |-> "find", places |-> getAllPlaces(store),
                targetPlaceName |-> targetPlaceName,
                result |-> findTargetPlace(getAllPlaces(store), targetPlaceName)]
    /\ UNCHANGED <<places, apiKey, placesKey, sessions, heap, turn, resp, obs>>

\* slots without the key k
withoutKey(slots, k) == [x \in DOMAIN slots \ {k} |-> slots[x]]

\* lines 737-762 for one candidate: its place details are fetched and it is
\* scored with them, for the slots as given and for the same slots without
\* openNow
CallScoreFetched(place, slots, outcome, userLocation) ==
    /\ \E enrichedData \in {fetchPlaceDetails(place.placeId, placesKey, outcome)} :
          call' = [fn |-> "scoreFetched", place |-> place, slots |-> slots,
                   hasKey |-> placesKey, outcome |-> outcome,
                   userLocation |-> userLocation,
                   result |-> scorePlace(place, slots, enrichedData, userLocation),
                   base |-> scorePlace(place, withoutKey(slots, "openNow"),
                                       enrichedData, userLocation)]
    /\ UNCHANGED <<places, apiKey, placesKey, sessions, heap, turn, resp, obs>>

\* lines 623-698 for a matched place with an external identifier: its place
\* details are fetched and the question is answered, or the fallback is sent
CallInfo(targetPlace, questionType, outcome) ==
    /\ \E a \in {InfoAnswer(targetPlace, questionType,
                             fetchPlaceDetails(targetPlace.placeId, placesKey,
                                               outcome))} :
          call' = [fn |-> "info", targetPlace |-> targetPlace,
                   questionType |-> questionType,
                   hasKey |-> placesKey, outcome |-> outcome,
                   branch |-> IF a.threw THEN "infoFallback" ELSE "infoAnswer",
                   assistantMessage |-> IF a.threw
                                        THEN MsgInfoFallback(targetPlace.name)
                                        ELSE a.answer,
                   results |-> <<>>]
    /\ UNCHANGED <<places, apiKey, placesKey, sessions, heap, turn, resp, obs>>

\* a fresh process makes one call
ScoreCall ==
    /\ call = NoCall
    /\ \E p \in StoredPlaces, sl \in AllSlots, e \in EnrichedValues,
          loc \in UserLocations : CallScorePlace(p, sl, e, loc)

GateCall ==
    /\ call = NoCall
    /\ \E a \in 0..MaxBlock, b \in 0..MaxBlock, c \in 0..MaxBlock, d \in 0..MaxBlock :
          CallGate(a, b, c, d)

ExplainCall ==
    /\ call = NoCall
    /\ \E n \in 0..MaxExplain, v \in 0..3, o \in ExplainOutcomes(MaxExplain + 1) :
          CallExplain(n, v, o)

InterpretCall ==
    /\ call = NoCall
    /\ \E sl \in ProviderSlots \cup InitialSlots, o \in InterpOutcomes :
          CallInterpret(sl, o)

ScorePairCall ==
    /\ call = NoCall
    /\ \E p \in StoredPlaces, sl \in {x \in AllSlots : SlotStr(x, "category")},
          e \in EnrichedValues, loc \in UserLocations :
          \E tag \in {x \in ExtraTags :
                         includes(toLowerCase(x), toLowerCase(sl["category"]))} :
             CallScorePair(p, tag, sl, e, loc)

RecommendCall ==
    /\ call = NoCall
    /\ \E a, b \in {0, 1, 3}, c, d, e, f \in {0, 1}, sl \in RankSlots,
          loc \in UserLocations, v \in 0..3 :
          \E store \in {MixedStore(a, b, c, d, e, f)} :
             CallRecommend(store, sl, loc, v)

FilterCall ==
    /\ call = NoCall
    /\ \E a, b \in {0, 1, 2 * MaxBlock}, c, d, e, f \in {0, 1},
          sl \in FilterSlots, ln \in ListNames :
          \E store \in {MixedStore(a, b, c, d, e, f)} : CallFilter(store, sl, ln)

FindCall ==
    /\ call = NoCall
    /\ \E store \in FindStores, n \in TargetNames \cup {sJoes, sVegan} :
          CallFind(store, n)

ScoreFetchedCall ==
    /\ call = NoCall
    /\ \E p \in {x \in StoredPlaces : x.placeId # <<>>},
          sl \in {x \in AllSlots : Has(x, "openNow")},
          o \in FetchOutcomes, loc \in UserLocations :
          CallScoreFetched(p, sl, o, loc)

InfoCall ==
    /\ call = NoCall
    /\ \E p \in {x \in StoredPlaces : x.placeId # <<>>}, q \in QuestionTypes,
          o \in FetchOutcomes : CallInfo(p, q, o)

ImportCall ==
    /\ call = NoCall
    /\ \E store \in {<<>>, addPlace(<<>>, dJoe)}, u \in Uploads :
          CallImport(store, u)

NextPure == ScoreCall \/ GateCall \/ ExplainCall \/ InterpretCall \/ FilterCall
            \/ ScorePairCall \/ RecommendCall \/ FindCall \/ ScoreFetchedCall
            \/ InfoCall \/ ImportCall

SpecPure == Init /\ [][NextPure]_vars

----------------------------------------------------------------------------
(* SpecRace: two requests of one client, both on the session identifier s1, *)
(* whose turns overlap                                                      *)

NextRace ==
    \/ \E t \in Turns, m \in {StrMsg(<<"h", "i">>), StrMsg(<<"h", "i", "r", "e">>)},
          sl \in InitialSlots :
            Begin(t, m, "s1", <<>>, NoLocation, sl)
    \/ \E t \in Turns : TurnStep(t)

SpecRace == InitConc /\ [][NextRace]_vars

----------------------------------------------------------------------------
(* SpecGate: one client and a store with about as many places as the        *)
(* Enrichment Gate admits; the provider answers the oldest or the newest    *)
(* outstanding place-detail request first                                   *)

\* the fetches of turn t that have not settled
PendingFetches(t) ==
    IF turn[t].pc = "enriching"
    THEN {i \in 1..Len(turn[t].cands) : turn[t].enriched[i] = Pending}
    ELSE {}

\* the outstanding requests the provider may answer next
GateSettles(t) ==
    {i \in PendingFetches(t) :
        \/ \A j \in PendingFetches(t) : i <= j
        \/ \A j \in PendingFetches(t) : i >= j}

\* what the provider answers to the i-th request: every third request fails
GateOutcome(i) ==
    IF i % 3 = 0 THEN [kind |-> "networkError"] ELSE [kind |-> "ok", data |-> rawOpen]

GateInterpOutcomes ==
    {[kind |-> "networkError"],
     IntentObject("recommendations", [category |-> sCafe], <<>>, "", <<"q1">>, NoMsg),
     IntentObject("recommendations", [category |-> sVegan, price |-> "cheap"], <<>>, "",
                  <<>>, MsgProvider)}

\* the server has started and a list has been imported
InitGate ==
    /\ \E a \in {EnrichCap - 1, EnrichCap, EnrichCap + 2}, b \in {0, 1} :
          places = BlockStore(a, b, 0, 0)
    /\ apiKey \in BOOLEAN
    /\ placesKey = TRUE
    /\ sessions = [sid \in SessionIds |-> NoObj]
    /\ heap = [o \in ObjIds |-> EmptySlots]
    /\ turn = [t \in Turns |-> Idle]
    /\ resp = [t \in Turns |-> NoResp]
    /\ obs = [t \in Turns |-> NoObs]
    /\ call = NoCall

NextGate ==
    \/ \E t \in SeqTurns : Begin(t, StrMsg(<<"h", "i", "r", "e">>), "s1", <<>>,
                                  NoLocation, EmptySlots)
    \/ \E t \in SeqTurns, o \in GateInterpOutcomes : InterpretReturn(t, o)
    \/ \E t \in SeqTurns : \E i \in GateSettles(t) : FetchReturn(t, i, GateOutcome(i))
    \/ \E t \in SeqTurns : Rank(t)
    \/ \E t \in SeqTurns, o \in {[kind |-> "networkError"],
                                  [kind |-> "ok", parsed |-> "notArray"]} :
            ExplainReturn(t, o)

SpecGate == InitGate /\ [][NextGate]_vars

----------------------------------------------------------------------------
(* Properties *)

\* C1: a chat turn answers ok = false only when the message is missing or not
\* a string; with a valid message nothing reaches the orchestrator's catch
\* block and the response has ok = true.
C1_OnlyRejectionFails ==
    \A t \in Turns :
        (resp[t].sent /\ ~resp[t].ok) =>
            (resp[t].branch = "rejected" /\ resp[t].status = 400)

\* C2: scorePlace returns normally a number >= 0 for every combination of
\* inputs, also for enrichedData = null with slots.price 'cheap' or 'mid'.
C2_ScoreReturnsNonNegative ==
    call.fn = "scorePlace" => (~call.result.threw /\ call.result.score >= 0)

\* C3: slots accumulate within a session: a dimension the stored slots of a
\* session hold before a step is still held after it.
C3_SlotsAccumulate ==
    [][\A sid \in SessionIds :
          sessions[sid] # NoObj =>
              /\ sessions'[sid] # NoObj
              /\ DOMAIN heap[sessions[sid]] \subseteq DOMAIN heap'[sessions'[sid]]]_vars

\* C4: a recommendation turn in which some place-detail fetch failed still
\* ends with a successful response carrying results.
C4_FailedFetchTolerated ==
    \A t \in Turns :
        (resp[t].sent /\ obs[t].failed > 0) =>
            (resp[t].ok /\ resp[t].branch = "results")

\* the messages of the model that start with a greeting word and have at most
\* 5 tokens
GreetingMessages ==
    {StrMsg(<<"h", "i">>),
     StrMsg(<<" ", "H", "i", " ", "t", "h", "e", "r", "e", "!">>)}

\* C5: a turn that starts with a short greeting answers, when the session's
\* slots are empty, with the canned welcome and no results, without invoking
\* the Interpreter and leaving the session store as it was; when the slots are
\* not empty the message goes to the Interpreter instead.
C5_GreetingShortCircuit ==
    [][\A t \in Turns :
          (turn[t].pc = "idle" /\ obs'[t].message \in GreetingMessages) =>
              IF KeyCount(obs'[t].startSlots) = 0
              THEN /\ turn'[t].pc = "idle"
                   /\ resp'[t].sent
                   /\ resp'[t].ok
                   /\ resp'[t].assistantMessage = MsgGreeting
                   /\ resp'[t].results = <<>>
                   /\ obs'[t].interpret = 0
                   /\ sessions' = sessions
                   /\ heap' = heap
              ELSE /\ turn'[t].pc = "interpreting"
                   /\ turn'[t].message = obs'[t].message
                   /\ turn'[t].currentSlots = obs'[t].startSlots
                   /\ obs'[t].interpret = 1
                   /\ ~resp'[t].sent]_vars

C5_Witness ==
    /\ resp[1].sent
    /\ resp[1].assistantMessage = MsgGreeting
    /\ obs[1].message = StrMsg(<<" ", "H", "i", " ", "t", "h", "e", "r", "e", "!">>)
    /\ Len(places) > 0

\* C6: when the Candidate Filter returns no candidate the turn ends at once
\* with results = [] and the 'try adjusting your search' message, and it
\* makes no place-detail fetch, no scorePlace call and no explanation call.
C6_EmptyFilterEndsTurn ==
    \A t \in Turns :
        obs[t].candidates = 0 =>
            /\ resp[t].sent
            /\ resp[t].ok
            /\ resp[t].results = <<>>
            /\ resp[t].assistantMessage = MsgTryAdjust
            /\ obs[t].fetch = 0
            /\ obs[t].score = 0
            /\ obs[t].explain = 0

C6_Witness ==
    /\ resp[1].sent
    /\ obs[1].candidates = 0
    /\ Len(places) = MaxStore
    /\ resp[1].updatedSlots # EmptySlots

\* positions of a list of places with (has = TRUE) or without an external
\* place identifier
KindIdx(placeSeq, has) ==
    {i \in 1..Len(placeSeq) : (placeSeq[i].placeId # <<>>) = has}

\* the ids of the first k places of one kind, in list order
FirstIds(placeSeq, has, k) ==
    {placeSeq[i].id : i \in {j \in KindIdx(placeSeq, has) :
            Cardinality({h \in KindIdx(placeSeq, has) : h < j}) < k}}

\* C7: the pool handed to the Scorer holds at most 20 candidates with an
\* external place identifier and at most 10 without, at most 30 in all, and
\* they are the first 20 and the first 10 of each kind in filter order.
C7_GateBounds ==
    call.fn = "gate" =>
        /\ Cardinality(KindIdx(call.pool, TRUE)) <= 20
        /\ Cardinality(KindIdx(call.pool, FALSE)) <= 10
        /\ Len(call.pool) <= 30
        /\ \A has \in BOOLEAN :
              /\ {call.pool[i].id : i \in KindIdx(call.pool, has)}
                   = FirstIds(call.candidates, has, IF has THEN 20 ELSE 10)
              /\ \A i, j \in KindIdx(call.pool, has) :
                    i < j => call.pool[i].id < call.pool[j].id

C7_Witness ==
    /\ call.fn = "gate"
    /\ Cardinality(KindIdx(call.candidates, TRUE)) > 20
    /\ Cardinality(KindIdx(call.candidates, FALSE)) > 10
    /\ \E i, j \in 1..Len(call.candidates) :
          /\ i < j
          /\ call.candidates[i].placeId = <<>>
          /\ call.candidates[j].placeId # <<>>
          /\ \E k \in 1..Len(call.pool) : call.pool[k].id = call.candidates[j].id
    /\ Len(call.candidates) = FilterCap
    /\ Len(call.pool) = 30

\* C8: generateBatchExplanations returns one explanation per candidate, in
\* input order; when the provider's array has another length than the input,
\* every explanation is the template of its candidate and none is a
\* provider-supplied string.
C8_ExplanationPerCandidate ==
    call.fn = "explain" =>
        /\ Len(call.result) = Len(call.top5Places)
        /\ (call.outcome.kind = "ok" /\ call.outcome.parsed = "array"
            /\ Len(call.outcome.array) # Len(call.top5Places)) =>
                \A i \in 1..Len(call.top5Places) :
                    /\ call.result[i] = Template(call.top5Places[i].enrichedData)
                    /\ "text" \notin DOMAIN call.result[i]

C8_Witness ==
    /\ call.fn = "explain"
    /\ call.hasKey
    /\ Len(call.top5Places) = 5
    /\ call.outcome.kind = "ok"
    /\ call.outcome.parsed = "array"
    /\ Len(call.outcome.array) = 4
    /\ Len(call.result) = 5

\* the language-understanding provider is unavailable for the call
Unavailable(c) ==
    ~c.hasKey \/ c.outcome.kind \in {"networkError", "httpError", "badBody"}

\* C9: with the provider unavailable interpretMessageWithGemini returns the
\* default intent (recommendations, the current slots, no target place, no
\* question) and generateBatchExplanations one template per candidate.
C9_ProviderUnavailable ==
    /\ (call.fn = "interpret" /\ Unavailable(call)) =>
          /\ call.result.intentType = "recommendations"
          /\ call.result.slots = call.currentSlots
          /\ call.result.targetPlaceName = <<>>
          /\ call.result.questions = <<>>
    /\ (call.fn = "explain" /\ Unavailable(call)) =>
          /\ Len(call.result) = Len(call.top5Places)
          /\ \A i \in 1..Len(call.top5Places) :
                call.result[i] = Template(call.top5Places[i].enrichedData)

C9_Witness ==
    /\ call.fn = "interpret"
    /\ call.hasKey
    /\ call.outcome.kind = "badBody"
    /\ call.currentSlots = [cuisine |-> sVegan, openNow |-> TRUE, distanceKm |-> 2]
    /\ call.result.slots = call.currentSlots

\* C10: an informational turn whose target is not found (or has no external
\* place identifier) answers with results = [], without a place-detail fetch,
\* and with the clarification asking which place was meant.
C10_NotFoundAsksWhichPlace ==
    \A t \in Turns :
        (resp[t].sent /\ resp[t].branch = "notFound") =>
            /\ resp[t].results = <<>>
            /\ obs[t].fetch = 0
            /\ resp[t].assistantMessage = MsgWhichPlace

\* the positions of call.places the filter has to keep, ignoring its cap: in
\* the scope of the list, and passing each filter whose slot is set
ActiveCategory(c) == "category" \in DOMAIN c.slots /\ c.slots["category"] # <<>>
ActiveCuisine(c) == "cuisine" \in DOMAIN c.slots /\ c.slots["cuisine"] # <<>>
ActivePrice(c) ==
    "price" \in DOMAIN c.slots /\ c.slots["price"] \notin {"", "any"}
PassesBut(c, i, price) ==
    /\ c.listName # <<>> => c.places[i].listName = c.listName
    /\ ActiveCategory(c) => categoryFilter(c.places[i], c.slots)
    /\ ActiveCuisine(c) => cuisineFilter(c.places[i], c.slots)
    /\ (price /\ ActivePrice(c)) => priceFilter(c.places[i], c.slots)
Passing(c) == {i \in 1..Len(c.places) : PassesBut(c, i, TRUE)}
\* the k-th smallest element of a set of positions
Nth(S, k) == CHOOSE i \in S : Cardinality({j \in S : j < i}) = k - 1

\* C11: filterCandidates returns the first 50 (at most) of the places in scope
\* that pass every active filter, in their original order and unchanged; with
\* no slot set and no list scope these are the first 50 places of the input.
C11_FilterFirstFifty ==
    call.fn = "filter" =>
        /\ Len(call.result) = Min(Cardinality(Passing(call)), 50)
        /\ \A k \in 1..Len(call.result) :
              call.result[k] = call.places[Nth(Passing(call), k)]
        /\ (DOMAIN call.slots = {} /\ call.listName = <<>>) =>
              call.result = SubSeq(call.places, 1, Min(Len(call.places), 50))

C11_Witness ==
    /\ call.fn = "filter"
    /\ call.slots = [category |-> sVegan]
    /\ Len(call.places) > 50
    /\ Len(call.result) = 50
    /\ call.result[1].id > 1
    /\ Cardinality(Passing(call)) > 50

CategoryMatched(c) ==
    \E t \in {c.place.tags[i] : i \in 1..Len(c.place.tags)}
              \cup {c.place.placeTags[i] : i \in 1..Len(c.place.placeTags)}
              \cup {c.place.type, EnrLabel(c.enrichedData)} :
        t # <<>> /\ includes(toLowerCase(t), toLowerCase(c.slots["category"]))

\* what the added tag brings to the cuisine component, which reads the tags
\* too: 15 when a cuisine is set, the tag contains it and nothing did before
CuisineGain(c) ==
    IF /\ "cuisine" \in DOMAIN c.slots
       /\ c.slots["cuisine"] # <<>>
       /\ includes(toLowerCase(c.tag), toLowerCase(c.slots["cuisine"]))
       /\ ~\E t \in {c.place.tags[i] : i \in 1..Len(c.place.tags)}
                 \cup {c.place.placeTags[i] : i \in 1..Len(c.place.placeTags)}
                 \cup {c.place.name, c.place.notes, EnrLabel(c.enrichedData)} :
             t # <<>> /\ includes(toLowerCase(t), toLowerCase(c.slots["cuisine"]))
    THEN 15 ELSE 0

\* C13 as stated: adding a tag that contains the category never decreases
\* the score, and increases it by exactly 20 when no category-contributing
\* field matched before (for calls that return).
C13_TagAddsTwenty ==
    (call.fn = "scorePair" /\ ~call.before.threw /\ ~call.after.threw) =>
        /\ call.after.score >= call.before.score
        /\ ~CategoryMatched(call) => call.after.score = call.before.score + 20

\* C13 amended: the call with the tag returns exactly when the call without
\* it does, and then the score never decreases: it grows by 20 when no
\* category-contributing field matched before, and by a further 15 when the
\* tag also is the first field to match the cuisine slot.
C13_TagAddsTwentyPlusCuisine ==
    call.fn = "scorePair" =>
        /\ call.after.threw = call.before.threw
        /\ ~call.before.threw =>
              /\ call.after.score >= call.before.score
              /\ call.after.score =
                    call.before.score
                    + (IF CategoryMatched(call) THEN 0 ELSE 20)
                    + CuisineGain(call)

C13_Witness ==
    /\ call.fn = "scorePair"
    /\ ~call.before.threw
    /\ ~CategoryMatched(call)
    /\ "cuisine" \in DOMAIN call.slots
    /\ CuisineGain(call) = 0
    /\ call.before.score > 0
    /\ call.after.score = call.before.score + 20

\* the positions of call.places that match the category and the cuisine of
\* call.slots
Matching(c) ==
    {i \in 1..Len(c.places) :
        /\ ActiveCategory(c) => categoryFilter(c.places[i], c.slots)
        /\ ActiveCuisine(c) => cuisineFilter(c.places[i], c.slots)}

StoreOf(sess, h) ==
    [sid \in SessionIds |->
        IF sess[sid] = NoObj THEN [stored |-> FALSE]
        ELSE [stored |-> TRUE, slots |-> h[sess[sid]]]]

InfoBranches == {"infoAnswer", "infoFallback", "notFound"}

\* C15: the steps of an informational turn (finding the place, answering,
\* falling back, not finding it) leave the session store as it was, and its
\* response carries the slots the session had at the start of the turn and
\* no result.
C15_InformationalKeepsSlots ==
    [][\A t \in Turns :
          (/\ turn[t].pc \in {"interpreting", "infoFetching"}
           /\ \/ turn'[t].pc = "infoFetching"
              \/ (resp'[t].sent /\ resp'[t].branch \in InfoBranches)) =>
              /\ StoreOf(sessions', heap') = StoreOf(sessions, heap)
              /\ resp'[t].sent =>
                    /\ resp'[t].updatedSlots = obs'[t].startSlots
                    /\ resp'[t].results = <<>>]_vars

C15_Witness ==
    /\ resp[1].sent
    /\ resp[1].branch = "infoAnswer"
    /\ sessions["s1"] # NoObj
    /\ heap[sessions["s1"]] = [category |-> sVegan]
    /\ resp[1].updatedSlots = [category |-> sVegan]

\* C16: a turn on a session whose slots S a recommendation turn has stored
\* hands S to the Intent Interpreter as the current slots, and answers the
\* greeting only when S is empty, whatever context.slots the request carries.
C16_StoredSlotsPersist ==
    [][\A t \in Turns :
          LET sid == obs'[t].sessionId IN
          (turn[t].pc = "idle" /\ sid \in SessionIds /\ sessions[sid] # NoObj) =>
              /\ turn'[t].pc = "interpreting" =>
                    /\ turn'[t].currentSlots = heap[sessions[sid]]
                    /\ obs'[t].startSlots = heap[sessions[sid]]
              /\ (resp'[t].sent /\ resp'[t].branch = "greeting") =>
                    /\ KeyCount(heap[sessions[sid]]) = 0
                    /\ resp'[t].updatedSlots = heap[sessions[sid]]]_vars

C16_Witness ==
    /\ turn[1].pc = "interpreting"
    /\ sessions["s1"] # NoObj
    /\ turn[1].currentSlots = [cuisine |-> sVegan, openNow |-> TRUE, distanceKm |-> 2]
    /\ heap[sessions["s1"]] = turn[1].currentSlots

C19_AtMostOneQuestion ==
    \A t \in Turns :
        resp[t].sent =>
            /\ resp[t].optionalQuestion \in {"", "q1"}
            /\ resp[t].branch \in {"greeting"} \cup InfoBranches =>
                  resp[t].optionalQuestion = ""

C19_Witness ==
    /\ resp[1].sent
    /\ resp[1].branch = "results"
    /\ resp[1].optionalQuestion = "q1"
    /\ Len(resp[1].results) = MaxStore

\* the requests whose message is missing, empty or not a string
RejectedMessages ==
    {StrMsg(<<>>), [type |-> "undefined", text |-> <<>>],
     [type |-> "number", text |-> <<>>]}

\* C20: a request whose message is missing, empty or not a string is
\* answered at once with status 400, ok = false and 'Message is required':
\* no provider is called, no place is read, the session store is unchanged.
C20_InvalidMessageRejected ==
    [][\A t \in Turns :
          (turn[t].pc = "idle" /\ obs'[t].message \in RejectedMessages) =>
              /\ turn'[t].pc = "idle"
              /\ resp'[t].sent
              /\ resp'[t].status = 400
              /\ ~resp'[t].ok
              /\ resp'[t].assistantMessage = MsgRequired
              /\ obs'[t].interpret = 0
              /\ obs'[t].fetch = 0
              /\ obs'[t].score = 0
              /\ obs'[t].explain = 0
              /\ obs'[t].candidates = NullNum
              /\ sessions' = sessions
              /\ heap' = heap]_vars

C20_Witness ==
    /\ resp[1].sent
    /\ resp[1].status = 400
    /\ obs[1].message = [type |-> "number", text |-> <<>>]
    /\ sessions["s1"] # NoObj
    /\ Len(places) > 0

\* C18: with concurrent turns on different session identifiers, the stored
\* slots of a session change only in the step in which a turn on that
\* identifier stores its interpretation, they become what the interpretation
\* of that turn's own current slots gives, and until then they are the slots
\* the turn started from: each session ends as if its turns had run alone.
C18_SessionsDoNotInterfere ==
    [][/\ \A t \in Turns :
             (turn[t].pc = "interpreting" /\ sessions[turn[t].sessionId] # NoObj) =>
                 heap[sessions[turn[t].sessionId]] = turn[t].currentSlots
       /\ \A sid \in SessionIds :
             StoreOf(sessions', heap')[sid] # StoreOf(sessions, heap)[sid] =>
                 \E t \in Turns :
                    /\ turn[t].pc = "interpreting"
                    /\ turn[t].sessionId = sid
                    /\ turn'[t].pc # "interpreting"
                    /\ \A u \in Turns \ {t} : turn'[u] = turn[u]
                    /\ StoreOf(sessions', heap')[sid].stored
                    /\ StoreOf(sessions', heap')[sid].slots \in
                          {interpretMessageWithGemini(turn[t].currentSlots, apiKey,
                                                      o).slots :
                              o \in ConcInterpOutcomes}]_vars

C18_Witness ==
    /\ turn[1].pc = "enriching"
    /\ turn[2].pc = "interpreting"
    /\ turn[2].currentSlots = [price |-> "cheap"]
    /\ heap[sessions["s1"]] = [category |-> sVegan]
    /\ heap[sessions["s2"]] = [price |-> "cheap"]

\* C21: the results of a recommendation are in non-increasing order of score,
\* and of two results with equal scores the one that comes earlier in the
\* output of the Candidate Filter (the one with the smaller store position)
\* comes first, with or without an external place identifier.
C21_TiesKeepFilterOrder ==
    (call.fn = "recommend" /\ ~call.threw) =>
        \A j, k \in 1..Len(call.results) :
            j < k =>
                /\ call.results[j].score >= call.results[k].score
                /\ call.results[j].score = call.results[k].score =>
                      call.results[j].id < call.results[k].id

\* C22: the target of an informational question is the first saved place
\* whose name equals the target name ignoring case, also when an earlier
\* place matches by substring only; without such a place, the first one whose
\* name contains the target name or is contained in it; a place whose name is
\* empty, or in neither relation with the target name, is never selected.
C22_TargetResolution ==
    call.fn = "find" =>
        LET searchName == toLowerCase(call.targetPlaceName)
            name(i) == toLowerCase(call.places[i].name)
            exact == {i \in 1..Len(call.places) :
                         name(i) # <<>> /\ name(i) = searchName}
            fuzzy == {i \in 1..Len(call.places) :
                         /\ name(i) # <<>>
                         /\ (includes(name(i), searchName)
                             \/ includes(searchName, name(i)))}
        IN IF call.targetPlaceName = <<>> THEN call.result = 0
           ELSE IF exact # {} THEN call.result = Nth(exact, 1)
           ELSE IF fuzzy # {} THEN call.result = Nth(fuzzy, 1)
           ELSE call.result = 0

\* 'joe' is asked about in a store that lists Joes before Joe: the second
\* place is the target
C22_Witness ==
    /\ call.fn = "find"
    /\ call.targetPlaceName = sJoe
    /\ Len(call.places) = 3
    /\ call.places[1].name = sJoes
    /\ call.places[2].name = <<" ">>
    /\ call.places[3].name = sJoe
    /\ call.result = 3

\* what the place-detail provider reported about a candidate being open now:
\* "true", "false", or "absent" when it sent no opening hours or no response
ReportedOpenNow(c) ==
    IF c.hasKey /\ c.outcome.kind = "ok"
       /\ c.outcome.data.regularOpeningHours # Undefined
    THEN c.outcome.data.regularOpeningHours.openNow
    ELSE "absent"

\* C23: the open-now component of a candidate's score (the score with the
\* openNow slot minus the score without it) is 5 when slots.openNow is false
\* and the provider reported the place as not open now, 15 when slots.openNow
\* is true and the provider reported it open, and 0 in every other case.
C23_OpenNowComponent ==
    (call.fn = "scoreFetched" /\ ~call.result.threw) =>
        call.result.score - call.base.score =
            IF call.slots["openNow"] = TRUE /\ ReportedOpenNow(call) = "true" THEN 15
            ELSE IF call.slots["openNow"] = FALSE /\ ReportedOpenNow(call) = "false"
            THEN 5
            ELSE 0

\* C24: for a question of type openingHours or openNow about a matched place
\* with an external identifier, when the provider reports whether the place
\* is open now the answer states it accordingly (closed when the provider
\* reports not open), followed by up to 7 of the provider's weekday lines.
C24_OpenStatusFollowsProvider ==
    (/\ call.fn = "info"
     /\ call.questionType \in {"openingHours", "openNow"}
     /\ ReportedOpenNow(call) \in {"true", "false"}) =>
        /\ call.branch = "infoAnswer"
        /\ call.assistantMessage.kind = "openStatus"
        /\ call.assistantMessage.isOpen = (ReportedOpenNow(call) = "true")
        /\ call.assistantMessage.hours =
              Take(call.outcome.data.regularOpeningHours.weekdayDescriptions, 7)

\* C25: for a question of any type about a matched place with an external
\* identifier, when the place-detail fetch gives no data (no credential,
\* transport error, non-2xx status, unreadable body) the response is the
\* fallback offering a recommendation list, with no results.
C25_FetchFailureFallsBack ==
    (call.fn = "info" /\ (~call.hasKey \/ call.outcome.kind # "ok")) =>
        /\ call.branch = "infoFallback"
        /\ call.assistantMessage = MsgInfoFallback(call.targetPlace.name)
        /\ call.results = <<>>

\* C26: every chat turn is terminal. A response is sent only by the step that
\* ends the turn and every step that ends a turn sends one, so a turn sends
\* exactly one response; a turn in progress can always take its next step
\* whatever the other turn is doing; and, provider calls returning or failing
\* eventually, every turn in progress eventually ends with its response.
C26_EveryTurnResponds ==
    /\ [][\A t \in Turns :
             /\ (resp'[t].sent /\ resp'[t] # resp[t]) =>
                   (turn'[t].pc = "idle" /\ (turn[t].pc # "idle" \/ obs'[t] # obs[t]))
             /\ (turn[t].pc # "idle" /\ turn'[t].pc = "idle") => resp'[t].sent
             /\ turn'[t].pc # "idle" => ~resp'[t].sent]_vars
    /\ [](\A t \in Turns : turn[t].pc # "idle" => ENABLED TurnStep(t))
    /\ \A t \in Turns :
          (turn[t].pc # "idle") ~> (turn[t].pc = "idle" /\ resp[t].sent)

\* both turns are in progress at once, one of them about to receive its
\* explanations while the other still awaits its interpretation
C26_Witness ==
    /\ turn[1].pc = "explaining"
    /\ turn[2].pc = "interpreting"
    /\ resp[1] = NoResp
    /\ resp[2] = NoResp

\* the stages of a turn follow one another: while the interpretation is
\* awaited nothing has been fetched, scored or explained; while place details
\* are awaited at most 20 fetches are outstanding and nothing has been scored
\* or explained; the Explanation Generator sends at most one request
StagesInOrder ==
    \A t \in Turns :
        /\ turn[t].pc = "interpreting" =>
              (obs[t].fetch = 0 /\ obs[t].score = 0 /\ obs[t].explain = 0)
        /\ turn[t].pc = "enriching" =>
              /\ Cardinality(PendingFetches(t)) <= 20
              /\ obs[t].fetch <= 20
              /\ obs[t].score = 0
              /\ obs[t].explain = 0
        /\ obs[t].provider <= 1

\* fetches start in the step that receives the interpretation; scoring and
\* the call of the Explanation Generator happen in a step taken with no fetch
\* outstanding
StagesStepInOrder ==
    \A t \in Turns :
        /\ obs'[t].fetch > obs[t].fetch => turn[t].pc = "interpreting"
        /\ (\/ obs'[t].score > obs[t].score
            \/ obs'[t].explain > obs[t].explain
            \/ obs'[t].provider > obs[t].provider) =>
              (turn[t].pc = "enriching" /\ PendingFetches(t) = {})

\* C27 as stated: the stages of a turn run in sequence, at most 20 place-detail
\* fetches are in flight at once, and the Explanation Generator sends exactly
\* one request to its provider in a turn that ranks at least one candidate
\* and none in any other turn.
C27_StagesAndOneExplainCall ==
    /\ []StagesInOrder
    /\ [][StagesStepInOrder]_vars
    /\ [](\A t \in Turns :
             resp[t].sent =>
                 obs[t].provider = IF resp[t].branch = "results" THEN 1 ELSE 0)

\* C27, amended: the stages of a turn run in sequence, at most 20 place-detail
\* fetches are in flight at once, and the Explanation Generator sends one
\* request to its provider in a turn that ranks at least one candidate while
\* a provider key is configured, and none in any other turn.
C27_StagesAndOneExplainCallWithKey ==
    /\ []StagesInOrder
    /\ [][StagesStepInOrder]_vars
    /\ [](\A t \in Turns :
             resp[t].sent =>
                 obs[t].provider =
                     IF resp[t].branch = "results" /\ apiKey THEN 1 ELSE 0)

\* a turn on a store with more than 20 places with an external identifier
\* has ranked its candidates after 20 fetches, without a provider key
C27_Witness ==
    /\ resp[1].sent
    /\ resp[1].branch = "results"
    /\ ~apiKey
    /\ obs[1].fetch = 20
    /\ obs[1].failed > 0
    /\ obs[1].candidates > 20
    /\ obs[1].provider = 0

\* the Candidate Filter of a turn runs on the slots of the turn's own
\* interpretation
FilterUsesOwnSlots ==
    \A t \in Turns :
        (turn[t].pc = "interpreting" /\ turn'[t].pc = "enriching") =>
            /\ turn'[t].scoredCandidates =
                  filterCandidates(getAllPlaces(places), turn'[t].interpSlots, <<>>)
            /\ heap'[turn'[t].session] = turn'[t].interpSlots

\* the slots the Scorer and the Explanation Generator of turn t get in this
\* step, and the updatedSlots of its response, are the slots sl
LaterStagesUse(t, sl) ==
    /\ (turn[t].pc = "enriching" /\ turn'[t].pc = "explaining") =>
          /\ turn'[t].explainSlots = sl
          /\ turn'[t].top5 =
                top5Of(scoreAll(turn'[t].pool, sl, turn[t].userLocation).scored)
    /\ (turn[t].pc = "explaining" /\ resp'[t].sent) => resp'[t].updatedSlots = sl

\* C28 as stated: the slots given to the Candidate Filter, the Scorer and the
\* Explanation Generator of a recommendation turn, and its updatedSlots, are
\* the slots of the turn's own interpretation, also when a concurrent turn on
\* the same session identifier stores its slots meanwhile.
C28_OwnSlotsThroughout ==
    [][/\ FilterUsesOwnSlots
       /\ \A t \in Turns : LaterStagesUse(t, turn[t].interpSlots)]_vars

\* C28, amended: the Candidate Filter runs on the slots of the turn's own
\* interpretation, which the turn stores in its session object; the Scorer,
\* the Explanation Generator and updatedSlots read the session object when
\* they run; and while the turn awaits its place details or explanations the
\* slots of its session object change only when a concurrent turn holding
\* the same session object, on the same session identifier, stores the slots
\* of its own interpretation. So the later stages use the turn's own slots
\* unless such a turn wrote in between, and then they use what it wrote.
C28_OwnSlotsUnlessSameSessionWrites ==
    [][/\ FilterUsesOwnSlots
       /\ \A t \in Turns : LaterStagesUse(t, heap[turn[t].session])
       /\ \A t \in Turns :
             (/\ turn[t].pc \in {"enriching", "explaining"}
              /\ turn'[t].pc \in {"enriching", "explaining"}
              /\ heap'[turn[t].session] # heap[turn[t].session]) =>
                 \E u \in Turns \ {t} :
                    /\ turn[u].pc = "interpreting"
                    /\ turn[u].session = turn[t].session
                    /\ turn[u].sessionId = turn[t].sessionId
                    /\ turn'[t] = turn[t]
                    /\ \/ /\ turn'[u].pc = "enriching"
                          /\ heap'[turn[t].session] = turn'[u].interpSlots
                       \/ /\ resp'[u].sent
                          /\ resp'[u].branch = "noCandidates"
                          /\ heap'[turn[t].session] = resp'[u].updatedSlots]_vars

\* a turn awaits its explanations, computed for the slots a concurrent turn
\* on the same session wrote after this turn's own interpretation
C28_Witness ==
    /\ turn[1].pc = "explaining"
    /\ turn[2].pc = "enriching"
    /\ turn[1].session = turn[2].session
    /\ turn[1].interpSlots = [category |-> sVegan]
    /\ turn[2].interpSlots = EmptySlots
    /\ turn[1].explainSlots = EmptySlots

C30_OneBranchOneResponse ==
    call.fn = "import" =>
        /\ Len(call.result.jsonCalls) = 1
        /\ call.upload.kind = "zip" =>
              /\ call.result.branches = <<"zip">>
              /\ call.result.singleParsed = <<>>
              /\ call.result.places = call.result.zipPlaces
        /\ call.upload.kind = "csv" => call.result.branches = <<"csv">>

====
